---- MODULE Spec2Model ----
(***************************************************************************)
(* A model of the PDF rendering pipeline of url_to_pdf/pdf_generator.py:   *)
(* font-family resolution against the static registry, the inline markup   *)
(* parser of _write_formatted_text, and the step sequence of generate_pdf  *)
(* with its image interleaving.                                            *)
(*                                                                         *)
(* Python strings that the code indexes (inline HTML) are sequences of     *)
(* one-character strings; names and paths the code only compares are TLA+  *)
(* strings.                                                                *)
(***************************************************************************)
EXTENDS Integers, Sequences, FiniteSets, TLC

VARIABLES
    fs,        \* the font files that exist on disk (a set of paths)
    lookup,    \* the latest font query made on the current disk, and its result
    pieces,    \* the text runs and tags the inline HTML was written from
    html_text, \* _write_formatted_text: the inline HTML, a sequence of characters
    parts,     \* _write_formatted_text: the tokens appended so far
    last_end,  \* _write_formatted_text: end offset of the latest match
    ppc,       \* _write_formatted_text: position ("scan", "parsed", "raised",
               \*   "write", "written", "undefined_font")
    bold,      \* _write_formatted_text: local of the write loop
    italic,    \* _write_formatted_text: local of the write loop
    link_url,  \* _write_formatted_text: local of the write loop
    tok_i,     \* _write_formatted_text: the number of tokens the write loop took
    pdf,       \* the FPDF object: current font, text colour, number of pages
    wrote,     \* the text calls (multi_cell, write) of the latest step or call
    rpc,               \* generate_pdf: position
    font_arg,          \* generate_pdf: the font_family argument
    images,            \* generate_pdf: the images argument
    content_blocks,    \* generate_pdf: the types of article.content, in order
    fonts,             \* ArticlePDF: the (style, file) pairs given to add_font
    images_to_insert,  \* generate_pdf: local list
    paragraph_count,   \* generate_pdf: local
    image_interval,    \* generate_pdf: local
    paragraph_idx,     \* generate_pdf: local
    block_i,           \* generate_pdf: the number of blocks the loop has taken
    placed,            \* the calls of _insert_image so far, in order
    written,           \* the number of times pdf.output wrote the file
    error,             \* the exception generate_pdf raised, "none" if none
    taken,             \* the arguments and article fields the latest step read
    lpc,          \* _add_font_with_variations: position
    add_path,     \* _add_font_with_variations: font_path
    add_style,    \* _add_font_with_variations: style
    add_weight,   \* _add_font_with_variations: weight
    add_calls,    \* the add_font calls made so far, in order
    add_exc,      \* the exception that left _add_font_with_variations, if any
    ipc,          \* _insert_image: position
    ins_img,      \* _insert_image: img (width, height, whether the file loads)
    max_width,    \* _insert_image: max_width
    pdf_y,        \* the pdf given to _insert_image: vertical cursor, a fraction
    drawn,        \* the pdf.image calls made, in order
    apc,               \* api.download_images: position
    max_images,        \* api.download_images: argument
    include_top_image, \* api.download_images: argument
    has_callback,      \* api.download_images: whether progress_callback is given
    top_image,         \* article.top_image, a URL or None
    article_images,    \* article.images, a list of URLs
    downloaded,        \* api.download_images: local list
    skip_urls,         \* api.download_images: local set
    callbacks,         \* the calls of progress_callback made by download_images
    cpc,          \* cli.main: position
    argv,         \* cli.main: the command line (list_fonts, url, output, ...)
    article,      \* cli.main: the extracted article, None before extraction
    fetched,      \* cli.main: (top_image, images) of _download_article_images
    all_images,   \* cli.main: local list
    calls,        \* the calls main made outside cli.py so far, in order
    cli_exit      \* how main ends: returned, ClickException or raised

fontVars == << fs, lookup >>
parseVars == << pieces, html_text, parts, last_end, ppc,
               bold, italic, link_url, tok_i >>
pdfVars == << fonts, pdf, wrote >>
renderVars == << rpc, font_arg, images, content_blocks, images_to_insert,
                 paragraph_count, image_interval, paragraph_idx, block_i,
                 placed, written, error, taken >>
loadVars == << lpc, add_path, add_style, add_weight, add_calls, add_exc >>
insertVars == << ipc, ins_img, max_width, pdf_y, drawn >>
apiVars == << apc, max_images, include_top_image, has_callback, top_image,
             article_images, downloaded, skip_urls, callbacks >>
cliVars == << cpc, argv, article, fetched, all_images, calls, cli_exit >>
restVars == << loadVars, insertVars, apiVars, cliVars >>
vars == << fs, lookup, pieces, html_text, parts, last_end, ppc,
           bold, italic, link_url, tok_i, pdf, wrote,
           rpc, font_arg, images, content_blocks, fonts, images_to_insert,
           paragraph_count, image_interval, paragraph_idx, block_i,
           placed, written, error, taken,
           lpc, add_path, add_style, add_weight, add_calls, add_exc,
           ipc, ins_img, max_width, pdf_y, drawn,
           apc, max_images, include_top_image, has_callback, top_image,
           article_images, downloaded, skip_urls, callbacks,
           cpc, argv, article, fetched, all_images, calls, cli_exit >>

(***************************************************************************)
(* The font registry (FONT_FAMILIES), in definition order.  A Python dict  *)
(* iterates in insertion order, so the registry is a sequence.             *)
(***************************************************************************)
FONT_FAMILIES ==
  << [name |-> "noto-sans",
      regular |-> << "/usr/share/fonts/google-noto-vf/NotoSans[wght].ttf",
             "/usr/share/fonts/google-noto/NotoSans-Regular.ttf",
             "/usr/share/fonts/noto/NotoSans-Regular.ttf" >>,
      bold |-> << "/usr/share/fonts/google-noto-vf/NotoSans[wght].ttf",
             "/usr/share/fonts/google-noto/NotoSans-Bold.ttf",
             "/usr/share/fonts/noto/NotoSans-Bold.ttf" >>,
      italic |-> << "/usr/share/fonts/google-noto-vf/NotoSans-Italic[wght].ttf",
             "/usr/share/fonts/google-noto/NotoSans-Italic.ttf",
             "/usr/share/fonts/noto/NotoSans-Italic.ttf" >>,
      bold_italic |-> << "/usr/share/fonts/google-noto-vf/NotoSans-Italic[wght].ttf",
             "/usr/share/fonts/google-noto/NotoSans-BoldItalic.ttf",
             "/usr/share/fonts/noto/NotoSans-BoldItalic.ttf" >>],
     [name |-> "noto-serif",
      regular |-> << "/usr/share/fonts/google-noto-vf/NotoSerif[wght].ttf",
             "/usr/share/fonts/google-noto/NotoSerif-Regular.ttf",
             "/usr/share/fonts/noto/NotoSerif-Regular.ttf" >>,
      bold |-> << "/usr/share/fonts/google-noto-vf/NotoSerif[wght].ttf",
             "/usr/share/fonts/google-noto/NotoSerif-Bold.ttf",
             "/usr/share/fonts/noto/NotoSerif-Bold.ttf" >>,
      italic |-> << "/usr/share/fonts/google-noto-vf/NotoSerif-Italic[wght].ttf",
             "/usr/share/fonts/google-noto/NotoSerif-Italic.ttf",
             "/usr/share/fonts/noto/NotoSerif-Italic.ttf" >>,
      bold_italic |-> << "/usr/share/fonts/google-noto-vf/NotoSerif-Italic[wght].ttf",
             "/usr/share/fonts/google-noto/NotoSerif-BoldItalic.ttf",
             "/usr/share/fonts/noto/NotoSerif-BoldItalic.ttf" >>],
     [name |-> "liberation-sans",
      regular |-> << "/usr/share/fonts/liberation-sans/LiberationSans-Regular.ttf",
             "/usr/share/fonts/liberation-sans-fonts/LiberationSans-Regular.ttf",
             "/usr/share/fonts/truetype/liberation/LiberationSans-Regular.ttf" >>,
      bold |-> << "/usr/share/fonts/liberation-sans/LiberationSans-Bold.ttf",
             "/usr/share/fonts/liberation-sans-fonts/LiberationSans-Bold.ttf",
             "/usr/share/fonts/truetype/liberation/LiberationSans-Bold.ttf" >>,
      italic |-> << "/usr/share/fonts/liberation-sans/LiberationSans-Italic.ttf",
             "/usr/share/fonts/liberation-sans-fonts/LiberationSans-Italic.ttf",
             "/usr/share/fonts/truetype/liberation/LiberationSans-Italic.ttf" >>,
      bold_italic |-> << "/usr/share/fonts/liberation-sans/LiberationSans-BoldItalic.ttf",
             "/usr/share/fonts/liberation-sans-fonts/LiberationSans-BoldItalic.ttf",
             "/usr/share/fonts/truetype/liberation/LiberationSans-BoldItalic.ttf" >>],
     [name |-> "liberation-serif",
      regular |-> << "/usr/share/fonts/liberation-serif/LiberationSerif-Regular.ttf",
             "/usr/share/fonts/liberation-serif-fonts/LiberationSerif-Regular.ttf",
             "/usr/share/fonts/truetype/liberation/LiberationSerif-Regular.ttf" >>,
      bold |-> << "/usr/share/fonts/liberation-serif/LiberationSerif-Bold.ttf",
             "/usr/share/fonts/liberation-serif-fonts/LiberationSerif-Bold.ttf",
             "/usr/share/fonts/truetype/liberation/LiberationSerif-Bold.ttf" >>,
      italic |-> << "/usr/share/fonts/liberation-serif/LiberationSerif-Italic.ttf",
             "/usr/share/fonts/liberation-serif-fonts/LiberationSerif-Italic.ttf",
             "/usr/share/fonts/truetype/liberation/LiberationSerif-Italic.ttf" >>,
      bold_italic |-> << "/usr/share/fonts/liberation-serif/LiberationSerif-BoldItalic.ttf",
             "/usr/share/fonts/liberation-serif-fonts/LiberationSerif-BoldItalic.ttf",
             "/usr/share/fonts/truetype/liberation/LiberationSerif-BoldItalic.ttf" >>],
     [name |-> "free-sans",
      regular |-> << "/usr/share/fonts/gnu-free/FreeSans.ttf",
             "/usr/share/fonts/truetype/freefont/FreeSans.ttf" >>,
      bold |-> << "/usr/share/fonts/gnu-free/FreeSansBold.ttf",
             "/usr/share/fonts/truetype/freefont/FreeSansBold.ttf" >>,
      italic |-> << "/usr/share/fonts/gnu-free/FreeSansOblique.ttf",
             "/usr/share/fonts/truetype/freefont/FreeSansOblique.ttf" >>,
      bold_italic |-> << "/usr/share/fonts/gnu-free/FreeSansBoldOblique.ttf",
             "/usr/share/fonts/truetype/freefont/FreeSansBoldOblique.ttf" >>],
     [name |-> "free-serif",
      regular |-> << "/usr/share/fonts/gnu-free/FreeSerif.ttf",
             "/usr/share/fonts/truetype/freefont/FreeSerif.ttf" >>,
      bold |-> << "/usr/share/fonts/gnu-free/FreeSerifBold.ttf",
             "/usr/share/fonts/truetype/freefont/FreeSerifBold.ttf" >>,
      italic |-> << "/usr/share/fonts/gnu-free/FreeSerifItalic.ttf",
             "/usr/share/fonts/truetype/freefont/FreeSerifItalic.ttf" >>,
      bold_italic |-> << "/usr/share/fonts/gnu-free/FreeSerifBoldItalic.ttf",
             "/usr/share/fonts/truetype/freefont/FreeSerifBoldItalic.ttf" >>],
     [name |-> "dejavu-sans",
      regular |-> << "/usr/share/fonts/truetype/dejavu/DejaVuSans.ttf",
             "/usr/share/fonts/dejavu-sans-fonts/DejaVuSans.ttf",
             "/usr/share/fonts/dejavu/DejaVuSans.ttf",
             "/usr/share/fonts/TTF/DejaVuSans.ttf",
             "C:/Windows/Fonts/DejaVuSans.ttf" >>,
      bold |-> << "/usr/share/fonts/truetype/dejavu/DejaVuSans-Bold.ttf",
             "/usr/share/fonts/dejavu-sans-fonts/DejaVuSans-Bold.ttf",
             "/usr/share/fonts/dejavu/DejaVuSans-Bold.ttf",
             "/usr/share/fonts/TTF/DejaVuSans-Bold.ttf",
             "C:/Windows/Fonts/DejaVuSans-Bold.ttf" >>,
      italic |-> << "/usr/share/fonts/truetype/dejavu/DejaVuSans-Oblique.ttf",
             "/usr/share/fonts/dejavu-sans-fonts/DejaVuSans-Oblique.ttf",
             "/usr/share/fonts/dejavu/DejaVuSans-Oblique.ttf",
             "/usr/share/fonts/TTF/DejaVuSans-Oblique.ttf",
             "C:/Windows/Fonts/DejaVuSans-Oblique.ttf" >>,
      bold_italic |-> << "/usr/share/fonts/truetype/dejavu/DejaVuSans-BoldOblique.ttf",
             "/usr/share/fonts/dejavu-sans-fonts/DejaVuSans-BoldOblique.ttf",
             "/usr/share/fonts/dejavu/DejaVuSans-BoldOblique.ttf",
             "/usr/share/fonts/TTF/DejaVuSans-BoldOblique.ttf",
             "C:/Windows/Fonts/DejaVuSans-BoldOblique.ttf" >>],
     [name |-> "dejavu-serif",
      regular |-> << "/usr/share/fonts/truetype/dejavu/DejaVuSerif.ttf",
             "/usr/share/fonts/dejavu-serif-fonts/DejaVuSerif.ttf",
             "/usr/share/fonts/dejavu/DejaVuSerif.ttf",
             "/usr/share/fonts/TTF/DejaVuSerif.ttf",
             "C:/Windows/Fonts/DejaVuSerif.ttf" >>,
      bold |-> << "/usr/share/fonts/truetype/dejavu/DejaVuSerif-Bold.ttf",
             "/usr/share/fonts/dejavu-serif-fonts/DejaVuSerif-Bold.ttf",
             "/usr/share/fonts/dejavu/DejaVuSerif-Bold.ttf",
             "/usr/share/fonts/TTF/DejaVuSerif-Bold.ttf",
             "C:/Windows/Fonts/DejaVuSerif-Bold.ttf" >>,
      italic |-> << "/usr/share/fonts/truetype/dejavu/DejaVuSerif-Italic.ttf",
             "/usr/share/fonts/dejavu-serif-fonts/DejaVuSerif-Italic.ttf",
             "/usr/share/fonts/dejavu/DejaVuSerif-Italic.ttf",
             "/usr/share/fonts/TTF/DejaVuSerif-Italic.ttf",
             "C:/Windows/Fonts/DejaVuSerif-Italic.ttf" >>,
      bold_italic |-> << "/usr/share/fonts/truetype/dejavu/DejaVuSerif-BoldItalic.ttf",
             "/usr/share/fonts/dejavu-serif-fonts/DejaVuSerif-BoldItalic.ttf",
             "/usr/share/fonts/dejavu/DejaVuSerif-BoldItalic.ttf",
             "/usr/share/fonts/TTF/DejaVuSerif-BoldItalic.ttf",
             "C:/Windows/Fonts/DejaVuSerif-BoldItalic.ttf" >>] >>

\* list(FONT_FAMILIES.keys())
RegistryNames == [i \in 1..Len(FONT_FAMILIES) |-> FONT_FAMILIES[i].name]

\* `name in FONT_FAMILIES`
InRegistry(name) == \E i \in 1..Len(FONT_FAMILIES) : FONT_FAMILIES[i].name = name

\* FONT_FAMILIES[name]
Family(name) ==
    FONT_FAMILIES[CHOOSE i \in 1..Len(FONT_FAMILIES) : FONT_FAMILIES[i].name = name]

\* Optional[str]: the value None of a path
NoPath == "<None>"

\* Optional[str] argument of get_font_family: None, or a name
NoName == [given |-> FALSE, name |-> ""]
Named(n) == [given |-> TRUE, name |-> n]

RECURSIVE find_font_from(_, _, _)
find_font_from(paths, i, disk) ==
    IF i > Len(paths) THEN NoPath
    ELSE IF paths[i] \in disk THEN paths[i]
    ELSE find_font_from(paths, i + 1, disk)

\* find_font: the first path of the list that exists, else None
find_font(paths, disk) == find_font_from(paths, 1, disk)

\* `if find_font(...)`: None is falsy, a path is truthy
Truthy(path) == path # NoPath

RECURSIVE find_available_from(_, _)
find_available_from(i, disk) ==
    IF i > Len(FONT_FAMILIES) THEN << >>
    ELSE (IF Truthy(find_font(FONT_FAMILIES[i].regular, disk))
          THEN << FONT_FAMILIES[i].name >> ELSE << >>)
         \o find_available_from(i + 1, disk)

\* mutant: availability decided by the bold candidates
find_available_fonts_bold(disk) ==
    SelectSeq(RegistryNames, LAMBDA n : Truthy(find_font(Family(n).bold, disk)))

\* find_available_fonts: the loop over FONT_FAMILIES.items()
find_available_fonts(disk) == find_available_from(1, disk)

\* Results of a font query: a value or the exception raised
Ok(family) ==
    [exc |-> "none", msg |-> "", family |-> family, names |-> << >>]
Raise(exc, msg, names) ==
    [exc |-> exc, msg |-> msg, family |-> "", names |-> names]

\* mutant: the default is the last available family
get_default_font_last(disk) ==
    LET available == find_available_fonts(disk)
    IN  IF available = << >> THEN Raise("RuntimeError", "no_fonts", << >>)
        ELSE Ok(available[Len(available)])

\* get_default_font
get_default_font(disk) ==
    LET available == find_available_fonts(disk)
    IN  IF available = << >> THEN Raise("RuntimeError", "no_fonts", << >>)
        ELSE Ok(available[1])

\* mutant: an unknown or uninstalled family is replaced by the default one
get_font_family_lenient(req, disk) ==
    LET default == get_default_font(disk)
        known == req.given /\ InRegistry(req.name)
                    /\ Truthy(find_font(Family(req.name).regular, disk))
    IN  IF known THEN Ok(req.name) ELSE default

\* mutant: an unknown name is reported like a family that is not installed
get_font_family_unchecked(req, disk) ==
    LET default == IF req.given THEN Ok(req.name) ELSE get_default_font(disk)
    IN  IF default.exc # "none" THEN default
        ELSE IF ~InRegistry(default.family)
                  \/ ~Truthy(find_font(Family(default.family).regular, disk))
             THEN Raise("RuntimeError", "not_installed", << >>)
        ELSE Ok(default.family)

\* get_font_family
get_font_family(req, disk) ==
    LET default == IF req.given THEN Ok(req.name) ELSE get_default_font(disk)
    IN  IF default.exc # "none" THEN default
        ELSE IF ~InRegistry(default.family)
             THEN Raise("ValueError", "unknown_family", RegistryNames)
        ELSE IF ~Truthy(find_font(Family(default.family).regular, disk))
             THEN Raise("RuntimeError", "not_installed", << >>)
        ELSE Ok(default.family)

(***************************************************************************)
(* The inline markup parser: the first loop of _write_formatted_text.      *)
(*   tag_pattern = <(/?)([biu])>|<a href="([^"]+)">|</a>   (re.IGNORECASE) *)
(* Offsets are Python's: s[a:b] is SubSeq(s, a + 1, b).                    *)
(***************************************************************************)

\* Python None where a string may stand: no sequence of characters equals it
None == << "None" >>

\* str.lower(), and case folding under re.IGNORECASE, on one character
Lower(c) ==
    CASE c = "A" -> "a" [] c = "B" -> "b" [] c = "E" -> "e" [] c = "F" -> "f"
      [] c = "H" -> "h" [] c = "I" -> "i" [] c = "R" -> "r" [] c = "U" -> "u"
      [] c = "X" -> "x" [] OTHER -> c

LowerSeq(s) == [k \in 1..Len(s) |-> Lower(s[k])]

\* the literal prefix of the second alternative, and the third alternative
HrefOpen == << "<", "a", " ", "h", "r", "e", "f", "=", "\"" >>
AnchorClose == << "<", "/", "a", ">" >>

\* s[p:] starts with the literal, case ignored
StartsWithCI(s, p, literal) ==
    /\ p + Len(literal) <= Len(s)
    /\ LowerSeq(SubSeq(s, p + 1, p + Len(literal))) = literal

NoMatch == [found |-> FALSE, start |-> 0, end |-> 0,
            g0 |-> None, g1 |-> None, g2 |-> None, g3 |-> None]

\* mutant: the class of the first alternative is [bi]
MatchStyleTag_bi(s, p) ==
    LET slash == p + 2 <= Len(s) /\ s[p + 2] = "/"
        q == IF slash THEN p + 2 ELSE p + 1
    IN  IF /\ q + 2 <= Len(s)
           /\ s[p + 1] = "<"
           /\ Lower(s[q + 1]) \in {"b", "i"}
           /\ s[q + 2] = ">"
        THEN [found |-> TRUE, start |-> p, end |-> q + 2,
              g0 |-> SubSeq(s, p + 1, q + 2),
              g1 |-> IF slash THEN << "/" >> ELSE << >>,
              g2 |-> << s[q + 1] >>, g3 |-> None]
        ELSE NoMatch

\* <(/?)([biu])> at offset p
MatchStyleTag(s, p) ==
    LET slash == p + 2 <= Len(s) /\ s[p + 2] = "/"
        q == IF slash THEN p + 2 ELSE p + 1
    IN  IF /\ q + 2 <= Len(s)
           /\ s[p + 1] = "<"
           /\ Lower(s[q + 1]) \in {"b", "i", "u"}
           /\ s[q + 2] = ">"
        THEN [found |-> TRUE, start |-> p, end |-> q + 2,
              g0 |-> SubSeq(s, p + 1, q + 2),
              g1 |-> IF slash THEN << "/" >> ELSE << >>,
              g2 |-> << s[q + 1] >>, g3 |-> None]
        ELSE NoMatch

\* the end offset of the longest run of characters other than '"' from p
RECURSIVE QuoteFreeRun(_, _)
QuoteFreeRun(s, p) ==
    IF p < Len(s) /\ s[p + 1] # "\"" THEN QuoteFreeRun(s, p + 1) ELSE p

\* <a href="([^"]+)"> at offset p
MatchAnchorOpen(s, p) ==
    LET from == p + Len(HrefOpen)
        to == QuoteFreeRun(s, from)
    IN  IF /\ StartsWithCI(s, p, HrefOpen)
           /\ to > from
           /\ to + 2 <= Len(s)
           /\ s[to + 1] = "\""
           /\ s[to + 2] = ">"
        THEN [found |-> TRUE, start |-> p, end |-> to + 2,
              g0 |-> SubSeq(s, p + 1, to + 2),
              g1 |-> None, g2 |-> None, g3 |-> SubSeq(s, from + 1, to)]
        ELSE NoMatch

\* </a> at offset p
MatchAnchorClose(s, p) ==
    IF StartsWithCI(s, p, AnchorClose)
    THEN [found |-> TRUE, start |-> p, end |-> p + 4,
          g0 |-> SubSeq(s, p + 1, p + 4),
          g1 |-> None, g2 |-> None, g3 |-> None]
    ELSE NoMatch

\* the pattern at offset p: the alternatives in their order
MatchAt(s, p) ==
    IF MatchStyleTag(s, p).found THEN MatchStyleTag(s, p)
    ELSE IF MatchAnchorOpen(s, p).found THEN MatchAnchorOpen(s, p)
    ELSE MatchAnchorClose(s, p)

\* tag_pattern.finditer: the leftmost match at or after offset p
RECURSIVE NextMatch(_, _)
NextMatch(s, p) ==
    IF p >= Len(s) THEN NoMatch
    ELSE IF MatchAt(s, p).found THEN MatchAt(s, p)
    ELSE NextMatch(s, p + 1)

\* The token of a match; None.lower() raises AttributeError
TagToken(m) ==
    IF m.g0 = AnchorClose
    THEN [raised |-> FALSE, token |-> << "end_link", None >>]
    ELSE IF m.g3 # None /\ m.g3 # << >>
    THEN [raised |-> FALSE, token |-> << "start_link", m.g3 >>]
    ELSE IF m.g1 = << "/" >>
    THEN [raised |-> FALSE, token |-> << "end_" \o Lower(m.g2[1]), None >>]
    ELSE IF m.g2 = None
    THEN [raised |-> TRUE, token |-> << "AttributeError", None >>]
    ELSE [raised |-> FALSE, token |-> << "start_" \o Lower(m.g2[1]), None >>]

\* the text token before a match, when the match does not start at last_end
TextBefore(s, from, to) ==
    IF to > from THEN << << "text", SubSeq(s, from + 1, to) >> >> ELSE << >>

\* One pass of the finditer loop, or the code after it: from the state
\* (parts, last_end) to the next one
ParseStep(s, st) ==
    LET m == NextMatch(s, st.last_end)
    IN  IF m.found
        THEN IF TagToken(m).raised
             THEN [parts |-> st.parts \o TextBefore(s, st.last_end, m.start),
                   last_end |-> st.last_end, pc |-> "raised"]
             ELSE [parts |-> st.parts \o TextBefore(s, st.last_end, m.start)
                                \o << TagToken(m).token >>,
                   last_end |-> m.end, pc |-> "scan"]
        ELSE [parts |-> st.parts \o TextBefore(s, st.last_end, Len(s)),
              last_end |-> st.last_end, pc |-> "parsed"]

RECURSIVE ParseFrom(_, _)
ParseFrom(s, st) ==
    IF st.pc = "scan" THEN ParseFrom(s, ParseStep(s, st)) ELSE st

\* lines 521-541 as a whole: the tokens of html_text, or the exception
Tokenize(s) == ParseFrom(s, [parts |-> << >>, last_end |-> 0, pc |-> "scan"])

(***************************************************************************)
(* Inputs of the parser.  An input is written from pieces: text runs, the  *)
(* tags <b> <i> <u> <a href="..."> in some spelling, and tags of no        *)
(* supported kind.  No text run holds '<'.                                 *)
(***************************************************************************)

TextPiece(chars) == [kind |-> "text", tag |-> "", chars |-> chars, url |-> << >>]
OpenPiece(tag, chars) == [kind |-> "open", tag |-> tag, chars |-> chars, url |-> << >>]
ClosePiece(tag, chars) == [kind |-> "close", tag |-> tag, chars |-> chars, url |-> << >>]
LinkPiece(chars, url) == [kind |-> "open", tag |-> "a", chars |-> chars, url |-> url]
OtherTagPiece(tag, chars) == [kind |-> "other", tag |-> tag, chars |-> chars, url |-> << >>]

\* <b> </b> <i> </i> <a href="u"> </a> and two text runs
CanonPieces ==
    { OpenPiece("b", << "<", "b", ">" >>),
      ClosePiece("b", << "<", "/", "b", ">" >>),
      OpenPiece("i", << "<", "i", ">" >>),
      ClosePiece("i", << "<", "/", "i", ">" >>),
      LinkPiece(HrefOpen \o << "u", "\"", ">" >>, << "u" >>),
      ClosePiece("a", AnchorClose),
      TextPiece(<< "x" >>),
      TextPiece(<< " ", "X", "\"", ">", " " >>) }

\* the same tags in upper case, the URL in upper case too, and <u> </u>
OtherPieces ==
    { OpenPiece("b", << "<", "B", ">" >>),
      ClosePiece("b", << "<", "/", "B", ">" >>),
      OpenPiece("i", << "<", "I", ">" >>),
      ClosePiece("i", << "<", "/", "I", ">" >>),
      LinkPiece(<< "<", "A", " ", "H", "R", "E", "F", "=", "\"", "U", "\"", ">" >>,
                << "U" >>),
      ClosePiece("a", << "<", "/", "A", ">" >>),
      OpenPiece("u", << "<", "u", ">" >>),
      ClosePiece("u", << "<", "/", "U", ">" >>) }

\* tags the pattern has no alternative for: <span> and <a> without href
UnsupportedPieces ==
    { OtherTagPiece("span", << "<", "s", "p", "a", "n", ">" >>),
      OtherTagPiece("a", << "<", "a", ">" >>) }

MaxPieces == 5
MaxMixedPieces == 2

SeqsUpTo(S, n) == UNION { [1..k -> S] : k \in 0..n }

RECURSIVE Flatten(_)
Flatten(ps) == IF ps = << >> THEN << >> ELSE Head(ps).chars \o Flatten(Tail(ps))

\* every opening tag is closed by a tag of its kind, innermost first
RECURSIVE BalancedFrom(_, _)
BalancedFrom(ps, stack) ==
    IF ps = << >> THEN stack = << >>
    ELSE IF Head(ps).kind \in {"text", "other"} THEN BalancedFrom(Tail(ps), stack)
    ELSE IF Head(ps).kind = "open"
         THEN BalancedFrom(Tail(ps), << Head(ps).tag >> \o stack)
    ELSE /\ stack # << >>
         /\ Head(stack) = Head(ps).tag
         /\ BalancedFrom(Tail(ps), Tail(stack))

Balanced(ps) == BalancedFrom(ps, << >>)

\* only bold, italic and anchor tags
OnlyBIA(ps) ==
    \A k \in 1..Len(ps) :
        \/ ps[k].kind = "text"
        \/ ps[k].kind \in {"open", "close"} /\ ps[k].tag \in {"b", "i", "a"}

ParseInputs ==
    { ps \in SeqsUpTo(CanonPieces, MaxPieces) : Balanced(ps) }
        \cup SeqsUpTo(CanonPieces \cup OtherPieces \cup UnsupportedPieces,
                      MaxMixedPieces)

\* the paragraphs that follow the first one: plain, with an unclosed tag of
\* each kind, with a closing tag alone, and balanced
NextInputs ==
    { << >>,
      << TextPiece(<< "x" >>) >>,
      << OpenPiece("b", << "<", "b", ">" >>), TextPiece(<< "x" >>) >>,
      << OpenPiece("i", << "<", "i", ">" >>), TextPiece(<< "x" >>) >>,
      << LinkPiece(HrefOpen \o << "u", "\"", ">" >>, << "u" >>), TextPiece(<< "x" >>) >>,
      << TextPiece(<< "x" >>), ClosePiece("b", << "<", "/", "b", ">" >>) >>,
      << OpenPiece("i", << "<", "i", ">" >>), TextPiece(<< "x" >>),
         ClosePiece("i", << "<", "/", "i", ">" >>) >> }

\* the files of the family free-sans, first candidates
FreeSansRegular == "/usr/share/fonts/gnu-free/FreeSans.ttf"
FreeSansBold == "/usr/share/fonts/gnu-free/FreeSansBold.ttf"
FreeSansItalic == "/usr/share/fonts/gnu-free/FreeSansOblique.ttf"
FreeSansBoldItalic == "/usr/share/fonts/gnu-free/FreeSansBoldOblique.ttf"

\* FPDF(): an A4 page in millimetres with margins of one centimetre, no page
\* yet, the default font size, black text
Black == << 0, 0, 0 >>
Font(style, size) == [style |-> style, size |-> size]
NewPdf ==
    [font |-> Font("", 12), text_color |-> Black, pages |-> 0,
     auto_page_break |-> TRUE, b_margin |-> 20,
     w |-> 210, h |-> 297, l_margin |-> 10, r_margin |-> 10]

\* the registered styles of the pdf that _write_formatted_text is given: the
\* whole family, or the family without its italic files
PdfFontSets ==
    { { << "", FreeSansRegular >>, << "B", FreeSansBold >>,
        << "I", FreeSansItalic >>, << "BI", FreeSansBoldItalic >> },
      { << "", FreeSansRegular >>, << "B", FreeSansBold >> } }

ParseIdle ==
    /\ pieces = << >>
    /\ html_text = << >>
    /\ parts = << >>
    /\ last_end = 0
    /\ ppc = "idle"
    /\ bold = FALSE
    /\ italic = FALSE
    /\ link_url = None
    /\ tok_i = 0

PdfIdle ==
    /\ fonts = {}
    /\ pdf = NewPdf
    /\ wrote = << >>

RenderIdle ==
    /\ rpc = "idle"
    /\ font_arg = [given |-> FALSE, name |-> ""]
    /\ images = << >>
    /\ content_blocks = << >>
    /\ images_to_insert = << >>
    /\ paragraph_count = 0
    /\ image_interval = 0
    /\ paragraph_idx = 0
    /\ block_i = 0
    /\ placed = << >>
    /\ written = 0
    /\ error = "none"
    /\ taken = [step |-> "none"]

FontIdle ==
    /\ fs = {}
    /\ lookup = [op |-> "none", req |-> NoName, result |-> Ok(""), listed |-> << >>]

LoadIdle ==
    /\ lpc = "idle"
    /\ add_path = NoPath
    /\ add_style = ""
    /\ add_weight = 0
    /\ add_calls = << >>
    /\ add_exc = "none"

InsertIdle ==
    /\ ipc = "idle"
    /\ ins_img = [width |-> 0, height |-> 0, kind |-> "ok"]
    /\ max_width = 0
    /\ pdf_y = << 0, 1 >>
    /\ drawn = << >>

ApiIdle ==
    /\ apc = "idle"
    /\ max_images = 0
    /\ include_top_image = FALSE
    /\ has_callback = FALSE
    /\ top_image = "<None>"
    /\ article_images = << >>
    /\ downloaded = << >>
    /\ skip_urls = {}
    /\ callbacks = << >>

\* None, for an argument or a result that is a string otherwise
NoArg == "<None>"

\* no article yet
NoArticle == [top_image |-> NoArg, images |-> << >>, extracted |-> FALSE]

CliIdle ==
    /\ cpc = "idle"
    /\ argv = [list_fonts |-> FALSE, url |-> NoArg, output |-> NoArg,
               no_images |-> FALSE, max_images |-> 0]
    /\ article = NoArticle
    /\ fetched = [top_image |-> NoArg, images |-> << >>]
    /\ all_images = << >>
    /\ calls = << >>
    /\ cli_exit = "none"

RestIdle == LoadIdle /\ InsertIdle /\ ApiIdle /\ CliIdle

\* pdf.set_font(pdf.font_family_name, style, size) succeeds
FontDefined(registered, style) == \E f \in registered : f[1] = style

LINK_COLOR == << 0, 0, 180 >>

\* mutant: the style follows the bold flag alone
run_style_bold(b, i) == IF b THEN "B" ELSE ""

\* lines 549-556: the style of a run under the flags
run_style(b, i) ==
    IF b /\ i THEN "BI"
    ELSE IF b THEN "B"
    ELSE IF i THEN "I"
    ELSE ""

\* `if link_url:`
LinkActive(url) == url # None /\ url # << >>

\* one call of pdf.write, as recorded in `wrote`
Run(value, font, color, link) ==
    [text |-> value, style |-> font.style, size |-> font.size,
     color |-> color, link |-> link]

\* _write_formatted_text is entered with some inline HTML and a pdf whose
\* font generate_pdf has set to regular 12
ParseInit ==
    /\ pieces \in ParseInputs
    /\ html_text = Flatten(pieces)
    /\ parts = << >>
    /\ last_end = 0
    /\ ppc = "scan"
    /\ bold = FALSE
    /\ italic = FALSE
    /\ link_url = None
    /\ tok_i = 0
    /\ fonts \in PdfFontSets
    /\ pdf = [NewPdf EXCEPT !.pages = 1, !.b_margin = 15]
    /\ wrote = << >>
    /\ FontIdle
    /\ RenderIdle
    /\ RestIdle

ParseApply ==
    LET st == ParseStep(html_text, [parts |-> parts, last_end |-> last_end, pc |-> ppc])
    IN  /\ parts' = st.parts
        /\ last_end' = st.last_end
        /\ ppc' = st.pc
        /\ UNCHANGED << pieces, html_text, bold, italic, link_url, tok_i >>
        /\ UNCHANGED pdfVars
        /\ UNCHANGED fontVars
        /\ UNCHANGED renderVars
        /\ UNCHANGED restVars

\* one pass of the loop over tag_pattern.finditer(html_text)
ParseTag ==
    /\ ppc = "scan"
    /\ NextMatch(html_text, last_end).found
    /\ ParseApply

\* the loop is over: the text after the last match
ParseRest ==
    /\ ppc = "scan"
    /\ ~NextMatch(html_text, last_end).found
    /\ ParseApply

WriteFrame ==
    UNCHANGED << pieces, html_text, parts, last_end, fonts, fontVars, renderVars,
                 restVars >>

\* mutant: the write loop starts from the flags as they are
WriteStart_stale ==
    /\ ppc = "parsed"
    /\ ppc' = "write"
    /\ tok_i' = 0
    /\ UNCHANGED << bold, italic, link_url, pdf, wrote >>
    /\ WriteFrame

\* lines 543-545: the flags of the write loop
WriteStart ==
    /\ ppc = "parsed"
    /\ bold' = FALSE
    /\ italic' = FALSE
    /\ link_url' = None
    /\ ppc' = "write"
    /\ tok_i' = 0
    /\ UNCHANGED << pdf, wrote >>
    /\ WriteFrame

\* the write loop takes a token
Taking(part_type, value) ==
    /\ ppc = "write"
    /\ tok_i < Len(parts)
    /\ part_type = parts[tok_i + 1][1]
    /\ value = parts[tok_i + 1][2]

IsTextRun(part_type, value) ==
    part_type = "text" /\ value # None /\ value # << >>

\* lines 548-564: a text token with a value is written in the style of the
\* flags; set_font raises for a style that was never registered
WriteText ==
    \E part_type \in {"text"}, value \in { parts[k][2] : k \in 1..Len(parts) } :
        /\ Taking(part_type, value)
        /\ IsTextRun(part_type, value)
        /\ LET style == run_style(bold, italic)
           IN  IF ~FontDefined(fonts, style)
               THEN /\ ppc' = "undefined_font"
                    /\ UNCHANGED << tok_i, pdf, wrote >>
               ELSE /\ tok_i' = tok_i + 1
                    /\ UNCHANGED ppc
                    /\ IF LinkActive(link_url)
                       THEN /\ wrote' = Append(wrote,
                                   Run(value, Font(style, 12), LINK_COLOR, link_url))
                            /\ pdf' = [pdf EXCEPT !.font = Font(style, 12),
                                                  !.text_color = Black]
                       ELSE /\ wrote' = Append(wrote,
                                   Run(value, Font(style, 12), pdf.text_color, None))
                            /\ pdf' = [pdf EXCEPT !.font = Font(style, 12)]
        /\ UNCHANGED << bold, italic, link_url >>
        /\ WriteFrame

\* lines 565-576: any other token sets or clears one flag, or does nothing
WriteFlag ==
    \E part_type \in { parts[k][1] : k \in 1..Len(parts) },
       value \in { parts[k][2] : k \in 1..Len(parts) } :
        /\ Taking(part_type, value)
        /\ ~IsTextRun(part_type, value)
        /\ bold' = IF part_type = "start_b" THEN TRUE
                   ELSE IF part_type = "end_b" THEN FALSE
                   ELSE bold
        /\ italic' = IF part_type = "start_i" THEN TRUE
                     ELSE IF part_type = "end_i" THEN FALSE
                     ELSE italic
        /\ link_url' = IF part_type = "start_link" THEN value
                       ELSE IF part_type = "end_link" THEN None
                       ELSE link_url
        /\ tok_i' = tok_i + 1
        /\ UNCHANGED << ppc, pdf, wrote >>
        /\ WriteFrame

\* line 578: the loop is over, pdf.ln()
WriteEnd ==
    /\ ppc = "write"
    /\ tok_i = Len(parts)
    /\ ppc' = "written"
    /\ UNCHANGED << bold, italic, link_url, tok_i, pdf, wrote >>
    /\ WriteFrame

\* generate_pdf lines 496-498: the next paragraph.  The font is set back to
\* regular 12 and _write_formatted_text is called again; its locals are
\* unbound until line 543, the variables keep what the last call left.
NextCall ==
    /\ ppc = "written"
    /\ \E ps \in NextInputs :
          /\ pieces' = ps
          /\ html_text' = Flatten(ps)
    /\ parts' = << >>
    /\ last_end' = 0
    /\ ppc' = "scan"
    /\ tok_i' = 0
    /\ pdf' = [pdf EXCEPT !.font = Font("", 12)]
    /\ wrote' = << >>
    /\ UNCHANGED << bold, italic, link_url, fonts, fontVars, renderVars, restVars >>

ParseNext ==
    \/ ParseTag
    \/ ParseRest
    \/ WriteStart
    \/ WriteText
    \/ WriteFlag
    \/ WriteEnd
    \/ NextCall

ParseSpec == ParseInit /\ [][ParseNext]_vars

\* the input with its tags removed
RECURSIVE StripTags(_)
StripTags(ps) ==
    IF ps = << >> THEN << >>
    ELSE (IF Head(ps).kind = "text" THEN Head(ps).chars ELSE << >>)
         \o StripTags(Tail(ps))

\* the values of the text tokens, concatenated in order
RECURSIVE TextConcat(_)
TextConcat(tokens) ==
    IF tokens = << >> THEN << >>
    ELSE (IF Head(tokens)[1] = "text" THEN Head(tokens)[2] ELSE << >>)
         \o TextConcat(Tail(tokens))

\* the token a tag stands for
PieceToken(piece) ==
    IF piece.kind = "open" /\ piece.tag = "a" THEN << "start_link", piece.url >>
    ELSE IF piece.kind = "close" /\ piece.tag = "a" THEN << "end_link", None >>
    ELSE IF piece.kind = "open" THEN << "start_" \o piece.tag, None >>
    ELSE << "end_" \o piece.tag, None >>

\* one token per tag, and one text token per maximal run of text between
RECURSIVE ExpectedFrom(_, _)
ExpectedFrom(ps, run) ==
    LET flush == IF run = << >> THEN << >> ELSE << << "text", run >> >>
    IN  IF ps = << >> THEN flush
        ELSE IF Head(ps).kind \in {"text", "other"}
             THEN ExpectedFrom(Tail(ps), run \o Head(ps).chars)
        ELSE flush \o << PieceToken(Head(ps)) >> \o ExpectedFrom(Tail(ps), << >>)

ExpectedTokens(ps) == ExpectedFrom(ps, << >>)

\* a tag piece in its lower-case spelling, the URL as it is
LowerPiece(piece) ==
    IF piece.kind = "text" THEN piece
    ELSE IF piece.kind = "open" /\ piece.tag = "a"
         THEN [piece EXCEPT !.chars = HrefOpen \o piece.url \o << "\"", ">" >>]
    ELSE [piece EXCEPT !.chars = LowerSeq(piece.chars)]

LowerPieces(ps) == [k \in 1..Len(ps) |-> LowerPiece(ps[k])]

ParseOver == ppc \in {"parsed", "raised"}

\* C8: for an input with only well-balanced <b>, <i> and <a href="..."> tags
\* the values of the text tokens, concatenated, are the input without its tags.
C8_TextConcatIsStripped ==
    (ParseOver /\ OnlyBIA(pieces) /\ Balanced(pieces)) =>
        /\ ppc = "parsed"
        /\ TextConcat(parts) = StripTags(pieces)

\* C9: the tokens are, in source order, one start/end token per recognised
\* tag (start_link with the URL) and one text token with the characters
\* between, before and after the tags, verbatim.
C9_TokensInSourceOrder ==
    ParseOver =>
        /\ ppc = "parsed"
        /\ parts = ExpectedTokens(pieces)

\* C10: a tag in upper case yields the token of its lower-case spelling, and
\* parsing does not raise.
C10_CaseInsensitive ==
    ParseOver =>
        /\ ppc = "parsed"
        /\ parts = Tokenize(Flatten(LowerPieces(pieces))).parts

\* The same three statements hold wherever no closing anchor tag is spelled
\* other than "</a>"; the parser raises exactly on the others.
NoUpperAnchorClose(ps) ==
    \A k \in 1..Len(ps) :
        (ps[k].kind = "close" /\ ps[k].tag = "a") => ps[k].chars = AnchorClose

ParserHoldsWithoutUpperAnchorClose ==
    (ParseOver /\ NoUpperAnchorClose(pieces)) =>
        /\ ppc = "parsed"
        /\ parts = ExpectedTokens(pieces)
        /\ OnlyBIA(pieces) => TextConcat(parts) = StripTags(pieces)
        /\ parts = Tokenize(Flatten(LowerPieces(pieces))).parts

ParserRaisesOnUpperAnchorClose ==
    ParseOver => (ppc = "raised" <=> ~NoUpperAnchorClose(pieces))

\* a tag of the three kinds b, i and a-with-href
IsBIATag(piece) == piece.kind \in {"open", "close"} /\ piece.tag \in {"b", "i", "a"}

\* the characters of the input outside its b, i and a tags
RECURSIVE OutsideBIA(_)
OutsideBIA(ps) ==
    IF ps = << >> THEN << >>
    ELSE (IF IsBIATag(Head(ps)) THEN << >> ELSE Head(ps).chars)
         \o OutsideBIA(Tail(ps))

StyleOrLinkTypes ==
    { "start_b", "end_b", "start_i", "end_i", "start_link", "end_link" }

RECURSIVE BeforeRaise(_)
BeforeRaise(ps) ==
    IF ps = << >> THEN << >>
    ELSE IF ~NoUpperAnchorClose(<< Head(ps) >>) THEN << >>
    ELSE << Head(ps) >> \o BeforeRaise(Tail(ps))

\* the write loop is about to take a start_u or end_u token
TakingUnderline ==
    /\ ppc = "write"
    /\ tok_i < Len(parts)
    /\ parts[tok_i + 1][1] \in {"start_u", "end_u"}

C12_NoLeakNoRaise ==
    /\ (ppc = "write" /\ tok_i = 0) => (~bold /\ ~italic /\ link_url = None)
    /\ ~Balanced(pieces) => ppc \notin {"raised", "undefined_font"}

\* What holds of the code: the flags never leak, and a paragraph is written
\* to its end unless it holds a closing anchor tag spelled other than "</a>"
\* or asks for a style the pdf has no font for.
ParagraphStartsPlain ==
    (ppc = "write" /\ tok_i = 0) => (~bold /\ ~italic /\ link_url = None)

RaisesOnlyOnAnchorCloseOrFont ==
    /\ ppc = "raised" => ~NoUpperAnchorClose(pieces)
    /\ ppc = "undefined_font" => ~FontDefined(fonts, run_style(bold, italic))

StaleFlagsReached ==
    ppc = "parsed" /\ (bold \/ italic \/ link_url # None)

\* the style the flags stand for
StyleOfFlags(b, i) ==
    CASE b /\ i -> "BI"
      [] b /\ ~i -> "B"
      [] ~b /\ i -> "I"
      [] OTHER -> ""

\* C13: while a paragraph is written, a text token that is not empty is
\* written in the style of the bold and italic flags, as a link in the link
\* colour exactly when a link is active, and the text colour is the default
\* again after the run; a start or end token only sets or clears its flag
\* and writes nothing.  (A run is not written when set_font raises.)
C13_RunsFollowFlags ==
    [][(ppc = "write" /\ tok_i < Len(parts)) =>
          LET part_type == parts[tok_i + 1][1]
              value == parts[tok_i + 1][2]
          IN  IF part_type = "text" /\ value # << >>
              THEN \/ ppc' = "undefined_font" /\ wrote' = wrote
                   \/ /\ Len(wrote') = Len(wrote) + 1
                      /\ SubSeq(wrote', 1, Len(wrote)) = wrote
                      /\ wrote'[Len(wrote')].text = value
                      /\ wrote'[Len(wrote')].style = StyleOfFlags(bold, italic)
                      /\ wrote'[Len(wrote')].size = 12
                      /\ wrote'[Len(wrote')].color =
                             (IF link_url # None THEN LINK_COLOR ELSE Black)
                      /\ wrote'[Len(wrote')].link = link_url
                      /\ pdf'.font = Font(StyleOfFlags(bold, italic), 12)
                      /\ pdf'.text_color = Black
                      /\ << bold, italic, link_url >>' = << bold, italic, link_url >>
              ELSE /\ wrote' = wrote
                   /\ pdf' = pdf
                   /\ bold' = ((part_type = "start_b") \/ (bold /\ part_type # "end_b"))
                   /\ italic' = ((part_type = "start_i") \/ (italic /\ part_type # "end_i"))
                   /\ link_url' = IF part_type = "start_link" THEN value
                                  ELSE IF part_type = "end_link" THEN None
                                  ELSE link_url]_vars

C13_Witness ==
    /\ ppc = "written"
    /\ \E k \in 1..Len(wrote) :
          /\ wrote[k].style = "B"
          /\ wrote[k].color = LINK_COLOR
          /\ wrote[k].link = << "u" >>
    /\ pdf.text_color = Black

(***************************************************************************)
(* Font queries against a changing disk.                                   *)
(***************************************************************************)

\* The font files that may be present on the modelled disk: both families
\* at the ends of the registry and one in the middle, with first and later
\* candidates, and the variable-font files that serve two styles at once.
DiskPaths ==
    { "/usr/share/fonts/google-noto-vf/NotoSans[wght].ttf",
      "/usr/share/fonts/google-noto/NotoSans-Regular.ttf",
      "/usr/share/fonts/google-noto/NotoSans-Bold.ttf",
      "/usr/share/fonts/google-noto-vf/NotoSans-Italic[wght].ttf",
      "/usr/share/fonts/gnu-free/FreeSans.ttf",
      "/usr/share/fonts/truetype/freefont/FreeSansBold.ttf",
      "/usr/share/fonts/gnu-free/FreeSansOblique.ttf",
      "/usr/share/fonts/gnu-free/FreeSansBoldOblique.ttf",
      "/usr/share/fonts/TTF/DejaVuSerif.ttf",
      "/usr/share/fonts/truetype/dejavu/DejaVuSerif-Bold.ttf" }

\* Names a caller may pass: every registry key and some that are none
RequestNames ==
    { FONT_FAMILIES[i].name : i \in 1..Len(FONT_FAMILIES) }
        \cup { "comic-sans", "Noto Sans", "" }

Requests == { NoName } \cup { Named(n) : n \in RequestNames }

NoLookup == [op |-> "none", req |-> NoName, result |-> Ok(""), listed |-> << >>]

FontInit ==
    /\ fs = {}
    /\ lookup = NoLookup
    /\ ParseIdle
    /\ PdfIdle
    /\ RenderIdle
    /\ RestIdle

\* A font package is installed: one more file exists
InstallFontFile(path) ==
    /\ path \notin fs
    /\ fs' = fs \cup {path}
    /\ lookup' = NoLookup
    /\ UNCHANGED parseVars
    /\ UNCHANGED pdfVars
    /\ UNCHANGED renderVars
    /\ UNCHANGED restVars

\* A font package is removed
RemoveFontFile(path) ==
    /\ path \in fs
    /\ fs' = fs \ {path}
    /\ lookup' = NoLookup
    /\ UNCHANGED parseVars
    /\ UNCHANGED pdfVars
    /\ UNCHANGED renderVars
    /\ UNCHANGED restVars

\* A caller runs get_font_family(name)
CallGetFontFamily(req) ==
    /\ lookup' = [op |-> "get_font_family", req |-> req,
                  result |-> get_font_family(req, fs), listed |-> << >>]
    /\ UNCHANGED fs
    /\ UNCHANGED parseVars
    /\ UNCHANGED pdfVars
    /\ UNCHANGED renderVars
    /\ UNCHANGED restVars

\* A caller runs find_available_fonts()
CallFindAvailableFonts ==
    /\ lookup' = [op |-> "find_available_fonts", req |-> NoName,
                  result |-> Ok(""), listed |-> find_available_fonts(fs)]
    /\ UNCHANGED fs
    /\ UNCHANGED parseVars
    /\ UNCHANGED pdfVars
    /\ UNCHANGED renderVars
    /\ UNCHANGED restVars

FontNext ==
    \/ \E path \in DiskPaths : InstallFontFile(path)
    \/ \E path \in DiskPaths : RemoveFontFile(path)
    \/ \E req \in Requests : CallGetFontFamily(req)
    \/ CallFindAvailableFonts

FontSpec == FontInit /\ [][FontNext]_vars

\* The paths of one style over the whole registry
StylePaths(style) ==
    UNION { { FONT_FAMILIES[i][style][j] : j \in 1..Len(FONT_FAMILIES[i][style]) }
            : i \in 1..Len(FONT_FAMILIES) }

RegularPaths == StylePaths("regular")

\* A family has a regular-style candidate on disk
RegularInstalled(name, disk) ==
    \E j \in 1..Len(Family(name).regular) : Family(name).regular[j] \in disk

\* C4: get_font_family(None) selects the first entry of find_available_fonts();
\* it raises the no-fonts error exactly when that list is empty, succeeds
\* otherwise, and a repeated call on the unchanged disk selects the same family.
C4_DefaultIsFirstAvailable ==
    /\ [](lookup.op = "get_font_family" /\ ~lookup.req.given =>
            LET available == find_available_fonts(fs)
            IN  /\ available = << >> <=>
                      (lookup.result.exc = "RuntimeError"
                          /\ lookup.result.msg = "no_fonts")
                /\ available # << >> =>
                      (lookup.result.exc = "none"
                          /\ lookup.result.family = available[1])
                /\ lookup.result.exc \in {"none", "RuntimeError"})
    /\ [][(lookup.op = "get_font_family" /\ lookup'.op = "get_font_family"
              /\ ~lookup.req.given /\ ~lookup'.req.given)
            => lookup'.result = lookup.result]_vars

\* C4 witness: the default was resolved with two families installed, the
\* first of them not the first of the registry
C4_Witness ==
    /\ lookup.op = "get_font_family" /\ ~lookup.req.given
    /\ lookup.result.exc = "none"
    /\ Len(find_available_fonts(fs)) >= 2
    /\ lookup.result.family # FONT_FAMILIES[1].name

\* C5: a name that is no registry key raises ValueError whose message lists
\* the registry's names (at least one), whatever is on disk.
C5_UnknownFamilyIsValueError ==
    (lookup.op = "get_font_family" /\ lookup.req.given
        /\ ~InRegistry(lookup.req.name)) =>
        /\ lookup.result.exc = "ValueError"
        /\ lookup.result.msg = "unknown_family"
        /\ lookup.result.names = RegistryNames
        /\ Len(lookup.result.names) >= 1

\* C5 witness: an unknown name was asked for while fonts are installed
C5_Witness ==
    /\ lookup.op = "get_font_family" /\ lookup.req = Named("comic-sans")
    /\ find_available_fonts(fs) # << >>
    /\ lookup.result.exc = "ValueError"

\* C6: a registry name none of whose regular candidates exists raises the
\* not-installed RuntimeError, whatever other files exist; no other family
\* is substituted.
C6_NotInstalledIsRuntimeError ==
    (lookup.op = "get_font_family" /\ lookup.req.given
        /\ InRegistry(lookup.req.name)
        /\ ~RegularInstalled(lookup.req.name, fs)) =>
        /\ lookup.result.exc = "RuntimeError"
        /\ lookup.result.msg = "not_installed"
        /\ lookup.result.family = ""

\* C6 witness: the family asked for has a bold file but no regular file, and
\* another family is installed
C6_Witness ==
    /\ lookup.op = "get_font_family" /\ lookup.req = Named("free-sans")
    /\ "/usr/share/fonts/truetype/freefont/FreeSansBold.ttf" \in fs
    /\ ~RegularInstalled("free-sans", fs)
    /\ find_available_fonts(fs) # << >>
    /\ lookup.result.exc = "RuntimeError"

\* C7: find_available_fonts() lists exactly the registry names with an
\* existing regular candidate, each once, in registry order; files that are
\* no regular candidate do not change the list.
C7_AvailableIsRegularInstalled ==
    lookup.op = "find_available_fonts" =>
        /\ lookup.listed =
              SelectSeq(RegistryNames, LAMBDA n : RegularInstalled(n, fs))
        /\ \A i, j \in 1..Len(lookup.listed) :
              lookup.listed[i] = lookup.listed[j] => i = j
        /\ lookup.listed = find_available_fonts(fs \cap RegularPaths)

\* C7 witness: two families listed while a third has only a bold file
C7_Witness ==
    /\ lookup.op = "find_available_fonts"
    /\ lookup.listed = << "noto-sans", "free-sans" >>
    /\ "/usr/share/fonts/truetype/dejavu/DejaVuSerif-Bold.ttf" \in fs

(***************************************************************************)
(* generate_pdf.  The rendering backend (fpdf) is modelled by what the     *)
(* code relies on: add_font registers a file under a style, set_font       *)
(* raises FPDFException for a style of the family that was never           *)
(* registered, image raises for a file it cannot load.                     *)
(***************************************************************************)

FONT_WEIGHTS == [regular |-> 400, bold |-> 700, italic |-> 400, bold_italic |-> 700]

\* the registry paths that contain "[wght]"
WghtPaths ==
    { "/usr/share/fonts/google-noto-vf/NotoSans[wght].ttf",
      "/usr/share/fonts/google-noto-vf/NotoSans-Italic[wght].ttf",
      "/usr/share/fonts/google-noto-vf/NotoSerif[wght].ttf",
      "/usr/share/fonts/google-noto-vf/NotoSerif-Italic[wght].ttf" }

\* "[wght]" in font_path
is_variable_font(font_path) == font_path \in WghtPaths

\* what fpdf's add_font may do with a file: register it, reject the
\* variations keyword (TypeError, AttributeError), or fail to read the file
AddFontErrors == { "TypeError", "AttributeError", "TTLibError" }
AddFontOutcomes == { "ok" } \cup AddFontErrors

\* a call of add_font; variations is << weight >> for {"wght": weight} and
\* << >> when the argument is not given
AddFont(style, font_path, variations) ==
    [style |-> style, path |-> font_path, variations |-> variations]

\* lines 399-407: the first call
first_add_font(font_path, style, weight) ==
    IF is_variable_font(font_path)
    THEN AddFont(style, font_path, << weight >>)
    ELSE AddFont(style, font_path, << >>)

\* mutant: except Exception
Caught_any(exc) == exc \in AddFontErrors

\* line 408: except (TypeError, AttributeError)
Caught(exc) == exc \in { "TypeError", "AttributeError" }

\* _add_font_with_variations under a backend whose first and second call of
\* add_font end as given: the calls made and the exception that leaves
add_font_with_variations(font_path, style, weight, first, second) ==
    LET call1 == first_add_font(font_path, style, weight)
        call2 == AddFont(style, font_path, << >>)
    IN  IF first = "ok" THEN [calls |-> << call1 >>, exc |-> "none"]
        ELSE IF ~Caught(first) THEN [calls |-> << call1 >>, exc |-> first]
        ELSE IF second = "ok" THEN [calls |-> << call1, call2 >>, exc |-> "none"]
        ELSE [calls |-> << call1, call2 >>, exc |-> "RuntimeError"]

\* ArticlePDF._setup_fonts: the add_font calls made for a family
setup_fonts(family, disk) ==
    LET regular_font == find_font(family.regular, disk)
        bold_font == find_font(family.bold, disk)
        italic_font == find_font(family.italic, disk)
        bold_italic_font == find_font(family.bold_italic, disk)
    IN  IF ~Truthy(regular_font)
        THEN [raised |-> TRUE, fonts |-> {}]
        ELSE [raised |-> FALSE,
              fonts |-> { << "", regular_font >> }
                  \cup (IF Truthy(bold_font) THEN { << "B", bold_font >> } ELSE {})
                  \cup (IF Truthy(italic_font) THEN { << "I", italic_font >> } ELSE {})
                  \cup (IF Truthy(bold_italic_font)
                        THEN { << "BI", bold_italic_font >> } ELSE {})]

\* The second loop of _write_formatted_text: the runs given to pdf.write,
\* each with the style set for it and the link it carries
RECURSIVE WriteFrom(_, _, _, _)
WriteFrom(tokens, b, i, url) ==
    IF tokens = << >> THEN << >>
    ELSE LET part_type == Head(tokens)[1]
             value == Head(tokens)[2]
         IN  IF IsTextRun(part_type, value)
             THEN << [style |-> run_style(b, i), link |-> url, value |-> value] >>
                      \o WriteFrom(Tail(tokens), b, i, url)
             ELSE IF part_type = "start_b"
                  THEN WriteFrom(Tail(tokens), TRUE, i, url)
             ELSE IF part_type = "end_b"
                  THEN WriteFrom(Tail(tokens), FALSE, i, url)
             ELSE IF part_type = "start_i"
                  THEN WriteFrom(Tail(tokens), b, TRUE, url)
             ELSE IF part_type = "end_i"
                  THEN WriteFrom(Tail(tokens), b, FALSE, url)
             ELSE IF part_type = "start_link"
                  THEN WriteFrom(Tail(tokens), b, i, value)
             ELSE IF part_type = "end_link"
                  THEN WriteFrom(Tail(tokens), b, i, None)
             ELSE WriteFrom(Tail(tokens), b, i, url)

\* the runs a call writes when no set_font raises
written_runs(s) == WriteFrom(Tokenize(s).parts, FALSE, FALSE, None)

\* mutant: no try/except around the insertion
insert_image_unguarded(img) ==
    [placed |-> img.kind = "ok", raised |-> img.kind # "ok"]

\* _insert_image(pdf, img, max_width): whether the image got onto a page, and
\* whether an exception leaves the function (except Exception: pass)
insert_image(img) ==
    [placed |-> img.kind = "ok", raised |-> FALSE]

\* line 451
effective_width == pdf.w - pdf.l_margin - pdf.r_margin

\* one call of _insert_image(pdf, img, effective_width), as recorded in
\* `placed`
Attempt(img, slot, after, result) ==
    [id |-> img.id, slot |-> slot, after |-> after, placed |-> result.placed,
     max_width |-> effective_width]

Max(a, b) == IF a >= b THEN a ELSE b

\* mutant: the interval divides by the number of remaining images
image_interval_of_k(count, remaining) ==
    IF remaining # << >> THEN Max(1, count \div Len(remaining)) ELSE 0

\* mutant: the interval is rounded up
image_interval_of_ceil(count, remaining) ==
    IF remaining # << >>
    THEN Max(1, (count + Len(remaining)) \div (Len(remaining) + 1))
    ELSE 0

\* lines 480-484
image_interval_of(count, remaining) ==
    IF remaining # << >> THEN Max(1, count \div (Len(remaining) + 1)) ELSE 0

\* sum(1 for b in content_blocks if b.type == "paragraph")
RECURSIVE CountParagraphs(_)
CountParagraphs(blocks) ==
    IF blocks = << >> THEN 0
    ELSE (IF Head(blocks) = "paragraph" THEN 1 ELSE 0) + CountParagraphs(Tail(blocks))

\* mutant: only the first of the leftover images is inserted
InsertAll_first(imgs, after) ==
    IF imgs = << >> THEN << >>
    ELSE << Attempt(Head(imgs), "end", after, insert_image(Head(imgs))) >>

\* for img in images_to_insert: _insert_image(...), up to the first raise
RECURSIVE InsertAll(_, _)
InsertAll(imgs, after) ==
    IF imgs = << >> THEN << >>
    ELSE << Attempt(Head(imgs), "end", after, insert_image(Head(imgs))) >>
         \o (IF insert_image(Head(imgs)).raised THEN << >>
             ELSE InsertAll(Tail(imgs), after))

(***************************************************************************)
(* Inputs of generate_pdf                                                  *)
(***************************************************************************)

MaxImages == 4
MaxParagraphs == 5

ImageKinds == {"ok", "corrupt"}

\* lists of up to MaxImages images; id is the position in the list
ImageInputs ==
    UNION { { [k \in 1..n |-> [id |-> k, kind |-> f[k]]] : f \in [1..n -> ImageKinds] }
            : n \in 0..MaxImages }

\* n paragraphs, with one heading as block h when h > 0
BlocksOf(n, h) ==
    [k \in 1..(n + (IF h > 0 THEN 1 ELSE 0)) |->
        IF k = h THEN "heading" ELSE "paragraph"]

\* the block lists up to MaxParagraphs paragraphs, and ten paragraphs in a row
BlockInputs ==
    UNION { { BlocksOf(n, h) : h \in 0..(n + 1) } : n \in 0..MaxParagraphs }
        \cup { BlocksOf(10, 0) }

\* a paragraph block: its plain text and its inline HTML (None when absent)
ParagraphBlock(text, html) == [text |-> text, html |-> html]

ParagraphBlocks ==
    { ParagraphBlock(<< "x" >>, None),
      ParagraphBlock(<< "x" >>, << >>),
      ParagraphBlock(<< "x" >>, << "x", "<", "i", ">", "x", "<", "/", "i", ">" >>),
      ParagraphBlock(<< "x" >>,
          << "<", "b", ">", "<", "i", ">", "x", "<", "/", "i", ">", "<", "/", "b", ">" >>),
      ParagraphBlock(<< "x" >>,
          HrefOpen \o << "u", "\"", ">", "x", "<", "/", "a", ">" >>),
      ParagraphBlock(<< "x" >>,
          HrefOpen \o << "u", "\"", ">", "x", "<", "/", "A", ">" >>) }

\* the disks a render may run on: no font, the regular file alone, regular
\* and bold, and the whole family
\* mutant: the plain text of the block
content_of_text(block) ==
    block.text

\* line 497: block.html if block.html else block.text
content_of(block) ==
    IF block.html # None /\ block.html # << >> THEN block.html ELSE block.text

\* the modelled paragraphs, each tokenized once
ParagraphContents == { content_of(block) : block \in ParagraphBlocks }
ParagraphParse == [s \in ParagraphContents |-> Tokenize(s).pc]
ParagraphRuns == [s \in ParagraphContents |-> written_runs(s)]

\* _write_formatted_text(pdf, html_text) on a modelled paragraph: the
\* exception it raises, if any
write_formatted_text(registered, s) ==
    IF ParagraphParse[s] = "raised" THEN "AttributeError"
    ELSE IF \E k \in 1..Len(ParagraphRuns[s]) :
                ~FontDefined(registered, ParagraphRuns[s][k].style)
         THEN "FPDFException"
    ELSE "none"

RenderDisks ==
    { {},
      { FreeSansRegular },
      { FreeSansRegular, FreeSansBold },
      { FreeSansRegular, FreeSansBold, FreeSansItalic, FreeSansBoldItalic } }

RenderFontArgs == { NoName, Named("free-sans"), Named("comic-sans") }

\* the (disk, font_family) pairs of a render: each disk under the default
\* family, and each named family on the disk without fonts
RenderSetups ==
    { << disk, NoName >> : disk \in RenderDisks }
        \cup { << {}, arg >> : arg \in RenderFontArgs }

(***************************************************************************)
(* The steps of generate_pdf                                               *)
(***************************************************************************)

\* Optional[str] None
NoTitle == "<None>"

\* the custom_title arguments, the article's title, authors and source URL
CustomTitles == { NoTitle, "", "Custom" }
ArticleTitle == "Extracted"
AuthorLists == { << >>, << "A" >>, << "A", "B" >> }
SourceUrl == "S"

\* heading blocks: the level, and a text with markup in it
MaxLevel == 7
HeadingLevels == 1..MaxLevel
HeadingTexts == { << "H" >>, << "<", "b", ">", "H" >> }

HEADING_SIZES == << 16, 14, 13, 12, 11, 11 >>

\* mutant: a level without an entry gets the size of the last entry
heading_size_clamped(level) ==
    IF level \in 1..Len(HEADING_SIZES) THEN HEADING_SIZES[level]
    ELSE HEADING_SIZES[Len(HEADING_SIZES)]

\* HEADING_SIZES.get(block.level, 12)
heading_size(level) ==
    IF level \in 1..Len(HEADING_SIZES) THEN HEADING_SIZES[level] ELSE 12

\* mutant: custom_title if custom_title is not None else article.title
title_of_not_none(custom_title, article_title) ==
    IF custom_title # NoTitle THEN custom_title ELSE article_title

\* line 453: custom_title or article.title
title_of(custom_title, article_title) ==
    IF custom_title # NoTitle /\ custom_title # "" THEN custom_title ELSE article_title

\* lines 458-461: meta_parts
meta_parts_of(authors, source_url) ==
    (IF authors # << >> THEN << [label |-> "Authors", value |-> authors] >> ELSE << >>)
        \o << [label |-> "Source", value |-> << source_url >>] >>

Grey == << 100, 100, 100 >>

\* the pdf.write calls of a paragraph, from the runs of the write loop
RunsAsWritten(runs, color) ==
    [k \in 1..Len(runs) |->
        Run(runs[k].value, Font(runs[k].style, 12),
            IF LinkActive(runs[k].link) THEN LINK_COLOR ELSE color,
            IF LinkActive(runs[k].link) THEN runs[k].link ELSE None)]

NothingTaken == [step |-> "none"]

\* the values of a sequence of runs
TextsOfRuns(runs) == [k \in 1..Len(runs) |-> runs[k].value]

RenderInit ==
    /\ rpc = "start"
    /\ \E setup \in RenderSetups :
          /\ fs = setup[1]
          /\ font_arg = setup[2]
    /\ images \in ImageInputs
    /\ content_blocks \in BlockInputs
    /\ fonts = {}
    /\ pdf = NewPdf
    /\ wrote = << >>
    /\ images_to_insert = << >>
    /\ paragraph_count = 0
    /\ image_interval = 0
    /\ paragraph_idx = 0
    /\ block_i = 0
    /\ placed = << >>
    /\ written = 0
    /\ error = "none"
    /\ taken = NothingTaken
    /\ lookup = [op |-> "none", req |-> NoName, result |-> Ok(""), listed |-> << >>]
    /\ ParseIdle
    /\ RestIdle

\* an exception leaves generate_pdf
RaiseOut(exc) ==
    /\ rpc' = "raised"
    /\ error' = exc

RenderFrame ==
    UNCHANGED << fontVars, parseVars, restVars, font_arg, images, content_blocks >>

\* line 447: ArticlePDF(font_family_name=font_family).  The backend treats
\* every file of the family alike: `first` and `second` are what add_font
\* does on the first and on the fallback call.
NewArticlePDF ==
    /\ rpc = "start"
    /\ \E first \in AddFontOutcomes, second \in { "ok", "TTLibError" } :
          LET family == get_font_family(font_arg, fs)
              setup == setup_fonts(Family(family.family), fs)
              load == add_font_with_variations(
                          find_font(Family(family.family).regular, fs), "",
                          FONT_WEIGHTS.regular, first, second)
          IN  IF family.exc # "none"
              THEN /\ RaiseOut(family.exc)
                   /\ UNCHANGED fonts
              ELSE IF setup.raised
              THEN /\ RaiseOut("RuntimeError")
                   /\ UNCHANGED fonts
              ELSE IF load.exc # "none"
              THEN /\ RaiseOut(load.exc)
                   /\ UNCHANGED fonts
              ELSE /\ fonts' = setup.fonts
                   /\ rpc' = "page"
                   /\ UNCHANGED error
    /\ UNCHANGED << pdf, wrote, taken >>
    /\ UNCHANGED << images_to_insert, paragraph_count, image_interval,
                    paragraph_idx, block_i, placed, written >>
    /\ RenderFrame

\* lines 448-451: set_auto_page_break(auto=True, margin=15), add_page
InitPage ==
    /\ rpc = "page"
    /\ rpc' = "title"
    /\ pdf' = [pdf EXCEPT !.auto_page_break = TRUE, !.b_margin = 15,
                          !.pages = pdf.pages + 1]
    /\ UNCHANGED << wrote, taken >>
    /\ UNCHANGED << fonts, images_to_insert, paragraph_count, image_interval,
                    paragraph_idx, block_i, placed, written, error >>
    /\ RenderFrame

\* lines 453-456: the title, bold at size 18
WriteTitle ==
    /\ rpc = "title"
    /\ \E custom_title \in CustomTitles :
          LET title == title_of(custom_title, ArticleTitle)
          IN  /\ taken' = [step |-> "title", custom_title |-> custom_title,
                           title |-> ArticleTitle]
              /\ IF FontDefined(fonts, "B")
                 THEN /\ rpc' = "meta"
                      /\ pdf' = [pdf EXCEPT !.font = Font("B", 18)]
                      /\ wrote' = << Run(title, Font("B", 18), pdf.text_color, None) >>
                      /\ UNCHANGED error
                 ELSE /\ RaiseOut("FPDFException")
                      /\ wrote' = << >>
                      /\ UNCHANGED pdf
    /\ UNCHANGED << fonts, images_to_insert, paragraph_count, image_interval,
                    paragraph_idx, block_i, placed, written >>
    /\ RenderFrame

\* lines 458-470: authors and source, regular at size 10, grey
WriteMeta ==
    /\ rpc = "meta"
    /\ \E authors \in AuthorLists :
          LET meta_parts == meta_parts_of(authors, SourceUrl)
          IN  /\ taken' = [step |-> "meta", authors |-> authors,
                           source_url |-> SourceUrl]
              /\ IF FontDefined(fonts, "")
                 THEN /\ rpc' = "lead"
                      /\ pdf' = [pdf EXCEPT !.font = Font("", 10), !.text_color = Black]
                      /\ wrote' = [k \in 1..Len(meta_parts) |->
                                      Run(meta_parts[k], Font("", 10), Grey, None)]
                      /\ UNCHANGED error
                 ELSE /\ RaiseOut("FPDFException")
                      /\ wrote' = << >>
                      /\ UNCHANGED pdf
    /\ UNCHANGED << fonts, images_to_insert, paragraph_count, image_interval,
                    paragraph_idx, block_i, placed, written >>
    /\ RenderFrame

\* lines 472-485: the lead image, then the paragraph count and the interval
PlaceLeadImage ==
    /\ rpc = "lead"
    /\ LET lead == IF images # << >> THEN insert_image(Head(images))
                   ELSE [placed |-> FALSE, raised |-> FALSE]
           rest == IF images # << >> THEN Tail(images) ELSE << >>
           count == CountParagraphs(content_blocks)
       IN  /\ placed' = IF images # << >>
                        THEN << Attempt(Head(images), "lead", 0, lead) >>
                        ELSE << >>
           /\ images_to_insert' = rest
           /\ IF lead.raised
              THEN /\ RaiseOut("ImageError")
                   /\ UNCHANGED << paragraph_count, image_interval >>
              ELSE /\ paragraph_count' = count
                   /\ image_interval' = image_interval_of(count, rest)
                   /\ rpc' = "blocks"
                   /\ UNCHANGED error
    /\ paragraph_idx' = 0
    /\ wrote' = << >>
    /\ taken' = NothingTaken
    /\ UNCHANGED << fonts, pdf, block_i, written >>
    /\ RenderFrame

\* lines 488-494: a heading block, bold at the size of its level, then back
\* to regular 12
RenderHeading ==
    /\ rpc = "blocks"
    /\ block_i < Len(content_blocks)
    /\ content_blocks[block_i + 1] = "heading"
    /\ \E level \in HeadingLevels, text \in HeadingTexts :
          LET size == heading_size(level)
          IN  /\ taken' = [step |-> "heading", level |-> level, text |-> text]
              /\ IF FontDefined(fonts, "B") /\ FontDefined(fonts, "")
                 THEN /\ block_i' = block_i + 1
                      /\ wrote' = << Run(text, Font("B", size), pdf.text_color, None) >>
                      /\ pdf' = [pdf EXCEPT !.font = Font("", 12)]
                      /\ UNCHANGED << rpc, error >>
                 ELSE /\ RaiseOut("FPDFException")
                      /\ wrote' = << >>
                      /\ UNCHANGED << block_i, pdf >>
    /\ UNCHANGED << fonts, images_to_insert, paragraph_count, image_interval,
                    paragraph_idx, placed, written >>
    /\ RenderFrame

\* lines 496-508: a paragraph block, and the image that is due after it
RenderParagraph ==
    /\ rpc = "blocks"
    /\ block_i < Len(content_blocks)
    /\ content_blocks[block_i + 1] # "heading"
    /\ \E block \in ParagraphBlocks :
          LET content == content_of(block)
              exc == write_formatted_text(fonts, content)
              runs == ParagraphRuns[content]
              idx == paragraph_idx + 1
              due == /\ images_to_insert # << >>
                     /\ image_interval > 0
                     /\ idx % image_interval = 0
              result == insert_image(Head(images_to_insert))
          IN  /\ taken' = [step |-> "paragraph", block |-> block]
              /\ IF exc # "none"
                 THEN /\ RaiseOut(exc)
                      /\ wrote' = << >>
                      /\ UNCHANGED << pdf, paragraph_idx, images_to_insert, placed,
                                      block_i >>
                 ELSE /\ paragraph_idx' = idx
                      /\ wrote' = RunsAsWritten(runs, pdf.text_color)
                      /\ pdf' = [pdf EXCEPT !.font =
                                    IF runs = << >> THEN Font("", 12)
                                    ELSE Font(runs[Len(runs)].style, 12)]
                      /\ IF due
                         THEN /\ images_to_insert' = Tail(images_to_insert)
                              /\ placed' = Append(placed,
                                    Attempt(Head(images_to_insert), "paragraph", idx,
                                            result))
                              /\ IF result.raised
                                 THEN RaiseOut("ImageError") /\ UNCHANGED block_i
                                 ELSE block_i' = block_i + 1 /\ UNCHANGED << rpc, error >>
                         ELSE /\ block_i' = block_i + 1
                              /\ UNCHANGED << images_to_insert, placed, rpc, error >>
    /\ UNCHANGED << fonts, paragraph_count, image_interval, written >>
    /\ RenderFrame

\* lines 510-511: the images still in images_to_insert
AppendLeftover ==
    /\ rpc = "blocks"
    /\ block_i = Len(content_blocks)
    /\ LET attempts == InsertAll(images_to_insert, paragraph_idx)
       IN  /\ placed' = placed \o attempts
           /\ IF \E k \in 1..Len(images_to_insert) :
                    insert_image(images_to_insert[k]).raised
              THEN RaiseOut("ImageError")
              ELSE rpc' = "output" /\ UNCHANGED error
    /\ wrote' = << >>
    /\ taken' = NothingTaken
    /\ UNCHANGED << fonts, pdf, images_to_insert, paragraph_count, image_interval,
                    paragraph_idx, block_i, written >>
    /\ RenderFrame

\* line 513: pdf.output(output_path) writes the file
WriteOutput ==
    /\ rpc = "output"
    /\ written' = written + 1
    /\ rpc' = "done"
    /\ UNCHANGED << wrote, taken >>
    /\ UNCHANGED << fonts, pdf, images_to_insert, paragraph_count, image_interval,
                    paragraph_idx, block_i, placed, error >>
    /\ RenderFrame

\* mutant: pdf.output writes to the path and raises
WriteOutputFails_partial ==
    /\ rpc = "output"
    /\ written' = written + 1
    /\ RaiseOut("OSError")
    /\ UNCHANGED << wrote, taken >>
    /\ UNCHANGED << fonts, pdf, images_to_insert, paragraph_count, image_interval,
                    paragraph_idx, block_i, placed >>
    /\ RenderFrame

\* line 513: pdf.output(output_path) cannot open the path for writing
WriteOutputFails ==
    /\ rpc = "output"
    /\ RaiseOut("OSError")
    /\ UNCHANGED << wrote, taken >>
    /\ UNCHANGED << fonts, pdf, images_to_insert, paragraph_count, image_interval,
                    paragraph_idx, block_i, placed, written >>
    /\ RenderFrame

RenderNext ==
    \/ NewArticlePDF
    \/ InitPage
    \/ WriteTitle
    \/ WriteMeta
    \/ PlaceLeadImage
    \/ RenderHeading
    \/ RenderParagraph
    \/ AppendLeftover
    \/ WriteOutput
    \/ WriteOutputFails

RenderSpec == RenderInit /\ [][RenderNext]_vars

(***************************************************************************)
(* Properties of generate_pdf                                              *)
(***************************************************************************)

Min(a, b) == IF a <= b THEN a ELSE b

\* the insertions made after a paragraph, and those made after the last block
AfterParagraph == SelectSeq(placed, LAMBDA a : a.slot = "paragraph")
AtEnd == SelectSeq(placed, LAMBDA a : a.slot = "end")
Lead == SelectSeq(placed, LAMBDA a : a.slot = "lead")

\* N and K of the interleaving policy
NParagraphs == CountParagraphs(content_blocks)
KRemaining == Len(images) - 1

\* C1: with N paragraphs and K >= 1 images left after the lead image the
\* interval is max(1, N // (K+1)); the remaining images go, in input order,
\* one after each interval-th paragraph while images remain, the rest after
\* the last block; for N = 10 and K = 3 the interval is 2 and the images go
\* after paragraphs 2, 4 and 6.
C1_ImagesEveryIntervalParagraphs ==
    KRemaining >= 1 =>
        LET interval == Max(1, NParagraphs \div (KRemaining + 1))
        IN  /\ rpc \in {"blocks", "output", "done"} =>
                  /\ paragraph_count = NParagraphs
                  /\ image_interval = interval
            /\ \A j \in 1..Len(AfterParagraph) :
                  /\ AfterParagraph[j].id = j + 1
                  /\ AfterParagraph[j].after = j * interval
            /\ rpc = "blocks" =>
                  /\ Len(AfterParagraph) = Min(KRemaining, paragraph_idx \div interval)
                  /\ AtEnd = << >>
            /\ rpc \in {"output", "done"} =>
                  /\ Len(AfterParagraph) = Min(KRemaining, NParagraphs \div interval)
                  /\ Len(AtEnd) = KRemaining - Len(AfterParagraph)
                  /\ \A j \in 1..Len(AtEnd) :
                        AtEnd[j].id = Len(AfterParagraph) + 1 + j
                  /\ placed = Lead \o AfterParagraph \o AtEnd
            /\ (rpc \in {"output", "done"} /\ NParagraphs = 10 /\ KRemaining = 3) =>
                  /\ image_interval = 2
                  /\ [j \in 1..Len(AfterParagraph) |-> AfterParagraph[j].after]
                        = << 2, 4, 6 >>

\* C1 witness: the render of ten paragraphs and four images is done, the
\* three images after the lead one inserted after paragraphs 2, 4 and 6
C1_Witness ==
    /\ rpc = "done"
    /\ paragraph_count = 10
    /\ Len(images) = 4
    /\ image_interval = 2
    /\ Len(AfterParagraph) = 3
    /\ AfterParagraph[1].after = 2 /\ AfterParagraph[1].id = 2
    /\ AfterParagraph[3].after = 6 /\ AfterParagraph[3].id = 4
    /\ AtEnd = << >>

\* the ids of the supplied images that can be loaded, in input order
LoadableIds ==
    LET loadable == SelectSeq(images, LAMBDA img : img.kind = "ok")
    IN  [k \in 1..Len(loadable) |-> loadable[k].id]

\* the ids of the images that got onto a page, in the order of insertion
PlacedIds ==
    LET onPage == SelectSeq(placed, LAMBDA a : a.placed)
    IN  [k \in 1..Len(onPage) |-> onPage[k].id]

\* C2: an image that cannot be loaded raises nothing out of generate_pdf; it
\* is skipped, every other supplied image is placed, the blocks after it
\* are rendered and the file is written: a finished render has placed
\* exactly the loadable images.
C2_BadImageIsSkipped ==
    /\ rpc = "raised" => error # "ImageError"
    /\ \A k \in 1..Len(placed) :
          placed[k].placed <=> images[placed[k].id].kind = "ok"
    /\ rpc \in {"output", "done"} =>
          /\ block_i = Len(content_blocks)
          /\ Len(placed) = Len(images)
          /\ PlacedIds = LoadableIds
    /\ rpc = "done" => written = 1

\* C2 witness: a finished render of four images, the second corrupt, with
\* the three others on the pages and the file written
C2_Witness ==
    /\ rpc = "done"
    /\ written = 1
    /\ Len(images) = 4
    /\ images[2].kind = "corrupt"
    /\ PlacedIds = << 1, 3, 4 >>
    /\ Len(content_blocks) >= 2

\* C3: when the chosen family has a regular file, a style without any
\* existing file falls back to the regular file: neither the font setup nor
\* a later request for that style makes the render fail.
C3_MissingStyleNeverFails ==
    (rpc = "raised" /\ get_font_family(font_arg, fs).exc = "none") =>
        error # "FPDFException"

\* What the code does instead: only a render whose family has a bold file
\* gets past the title.
TitleNeedsBoldFile ==
    rpc \in {"meta", "lead", "blocks", "output", "done"} =>
        Truthy(find_font(Family(get_font_family(font_arg, fs).family).bold, fs))

\* the size the six-entry table gives, a level above 6 taking the smallest
ClampedSize(level) ==
    IF level > 6 THEN Min(HEADING_SIZES[5], HEADING_SIZES[6]) ELSE HEADING_SIZES[level]

\* a heading block has just been written
HeadingWritten == rpc = "blocks" /\ taken.step = "heading"

\* C14: a heading is written bold at the size its level has in the table of
\* six sizes: level 1 the largest, no size growing with the level, level 6 the
\* smallest, any level above 6 clamped to that smallest size; after the
\* heading the body style, regular at size 12, is set again.
C14_HeadingSizes ==
    /\ \A l \in 1..5 : HEADING_SIZES[l] >= HEADING_SIZES[l + 1]
    /\ HeadingWritten =>
          /\ Len(wrote) = 1
          /\ wrote[1].style = "B"
          /\ wrote[1].size = ClampedSize(taken.level)
          /\ pdf.font = Font("", 12)

\* What the code does: a level above 6 has no entry and is written at size 12,
\* larger than the headings of levels 5 and 6.
HeadingSizesAsCoded ==
    HeadingWritten =>
        /\ wrote[1].style = "B"
        /\ wrote[1].size = (IF taken.level > 6 THEN 12 ELSE HEADING_SIZES[taken.level])
        /\ pdf.font = Font("", 12)

\* the order of the positions of generate_pdf
StepOrder ==
    { << "start", "page" >>, << "page", "title" >>, << "title", "meta" >>,
      << "meta", "lead" >>, << "lead", "blocks" >>, << "blocks", "output" >>,
      << "output", "done" >> }

\* the values of the text calls of the latest step
TextsWritten == [k \in 1..Len(wrote) |-> wrote[k].text]

\* what a paragraph block is to be parsed from, and the text runs of it
ParsedFrom(block) ==
    IF block.html = None \/ block.html = << >> THEN block.text ELSE block.html

ExpectedTexts ==
    [block \in ParagraphBlocks |-> TextsOfRuns(written_runs(ParsedFrom(block)))]

\* C16: generate_pdf takes its steps in one order: the page with automatic
\* page breaks, the title, the metadata (the authors line only when there are
\* authors, then the source URL), the lead image at the full content width,
\* the blocks in their order (a heading as plain bold text, a paragraph
\* parsed from its html when it has one, from its text otherwise), the
\* images left over, and then, once, the write of the output.
C16_StepsInOrder ==
    /\ [](/\ rpc \in {"title", "meta", "lead", "blocks", "output", "done"} =>
               (pdf.pages = 1 /\ pdf.auto_page_break /\ pdf.b_margin = 15)
          /\ rpc = "meta" =>
               (Len(wrote) = 1 /\ wrote[1].style = "B" /\ wrote[1].size = 18)
          /\ rpc = "lead" =>
               /\ taken.authors # << >> =>
                     (Len(wrote) = 2 /\ wrote[1].text.label = "Authors"
                                     /\ wrote[1].text.value = taken.authors
                                     /\ wrote[2].text.label = "Source")
               /\ taken.authors = << >> =>
                     (Len(wrote) = 1 /\ wrote[1].text.label = "Source")
               /\ wrote[Len(wrote)].text.value = << taken.source_url >>
          /\ (rpc \in {"blocks", "output", "done"} /\ images # << >>) =>
               /\ placed[1].id = images[1].id
               /\ placed[1].slot = "lead"
               /\ placed[1].max_width = pdf.w - pdf.l_margin - pdf.r_margin
               /\ \A k \in 2..Len(placed) : placed[k].slot # "lead"
          /\ HeadingWritten =>
               (TextsWritten = << taken.text >> /\ wrote[1].style = "B")
          /\ (rpc = "blocks" /\ taken.step = "paragraph") =>
               TextsWritten = ExpectedTexts[taken.block]
          /\ rpc \in {"output", "done"} =>
               (block_i = Len(content_blocks) /\ Len(placed) = Len(images))
          /\ written = (IF rpc = "done" THEN 1 ELSE 0))
    /\ [][/\ rpc' # rpc => (<< rpc, rpc' >> \in StepOrder \/ rpc' = "raised")
          /\ block_i' # block_i =>
               /\ rpc = "blocks"
               /\ block_i' = block_i + 1
               /\ taken'.step = content_blocks[block_i']
          /\ (rpc = "blocks" /\ rpc' = "output") =>
               /\ \A k \in (Len(placed) + 1)..Len(placed') : placed'[k].slot = "end"
               /\ Len(placed') = Len(images)
          /\ written' # written => (rpc = "output" /\ rpc' = "done")]_vars

C16_Witness ==
    /\ rpc = "done"
    /\ written = 1
    /\ \E k \in 1..Len(content_blocks) : content_blocks[k] = "heading"
    /\ \E k \in 1..Len(placed) : placed[k].slot = "paragraph"
    /\ \E k \in 1..Len(placed) : placed[k].slot = "end"

\* the exceptions of font resolution: no font available, family not
\* installed and a failed fallback load (RuntimeError), unknown family
\* (ValueError), a load error that is not caught
FontResolutionErrors ==
    { "RuntimeError", "ValueError" } \cup { e \in AddFontErrors : ~Caught(e) }

TitleWritten == rpc = "meta" /\ taken.step = "title"

\* C20 (as stated): whenever a custom title is given, whatever it is other
\* than None, the title block is written with it; the extracted title is
\* written only when none is given.
C20_CustomTitleOverrides ==
    TitleWritten =>
        wrote[1].text = (IF taken.custom_title # NoTitle THEN taken.custom_title
                         ELSE taken.title)

\* C20 (amended): a custom title that is not empty is the title written; the
\* extracted title is written when the custom title is None or the empty
\* string.
C20_NonEmptyCustomTitleOverrides ==
    TitleWritten =>
        /\ Len(wrote) = 1
        /\ taken.custom_title \notin {NoTitle, ""} => wrote[1].text = taken.custom_title
        /\ taken.custom_title \in {NoTitle, ""} => wrote[1].text = taken.title

C20_Witness ==
    /\ TitleWritten
    /\ taken.custom_title = ""
    /\ wrote[1].text = ArticleTitle

\* the ids of the images _insert_image was called with, in the order of the calls
AttemptedIds == [k \in 1..Len(placed) |-> placed[k].id]

\* C26: for any content blocks and any supplied images generate_pdf attempts
\* every supplied image exactly once and in input order, the lead image
\* first: the attempts made so far are the first images of the list, the
\* images still to insert are the rest of it, and a render that got past the
\* last block has attempted them all; with an empty list no insertion is
\* attempted and the interval is 0; a heading and a paragraph without images
\* give two text blocks and no image placement.
C26_EveryImageOnceInOrder ==
    /\ AttemptedIds = [k \in 1..Len(placed) |-> k]
    /\ \A k \in 1..Len(placed) : placed[k].slot = "lead" <=> k = 1
    /\ rpc = "blocks" =>
          images_to_insert = SubSeq(images, Len(placed) + 1, Len(images))
    /\ rpc \in {"output", "done"} => Len(placed) = Len(images)
    /\ images = << >> => (placed = << >> /\ image_interval = 0)
    /\ (rpc = "done" /\ images = << >> /\ content_blocks = << "heading", "paragraph" >>) =>
          (block_i = 2 /\ placed = << >>)

\* C26 witness: four images, all attempted, some of them after the last block
C26_Witness ==
    /\ rpc = "done"
    /\ Len(images) = 4
    /\ AttemptedIds = << 1, 2, 3, 4 >>
    /\ Len(AtEnd) = 2
    /\ Len(AfterParagraph) = 1

\* the end-to-end example of C26: a heading, a paragraph, no image
HeadingAndParagraphRendered ==
    /\ rpc = "done"
    /\ images = << >>
    /\ content_blocks = << "heading", "paragraph" >>
    /\ placed = << >>

\* K of C27: the images remaining after the lead image (none for no image)
KAfterLead == IF images = << >> THEN 0 ELSE Len(images) - 1

\* the state part of C27
LeftoverOnlyBeyondParagraphs ==
    /\ \A j \in 1..Len(AfterParagraph) :
          /\ AfterParagraph[j].after \in 1..NParagraphs
          /\ j > 1 => AfterParagraph[j].after > AfterParagraph[j - 1].after
    /\ rpc = "blocks" => AtEnd = << >>
    /\ rpc \in {"output", "done"} =>
          /\ AtEnd # << >> => KAfterLead > NParagraphs
          /\ KAfterLead > NParagraphs =>
                (Len(AtEnd) = KAfterLead - NParagraphs
                    /\ Len(AfterParagraph) = NParagraphs)
          /\ NParagraphs >= KAfterLead =>
                (AtEnd = << >> /\ Len(AfterParagraph) = KAfterLead)

\* the step part of C27: a block changes the insertions only if it is a
\* paragraph, and then by one
OnlyParagraphsInsert ==
    (rpc = "blocks" /\ block_i < Len(content_blocks) /\ block_i' = block_i + 1) =>
        /\ content_blocks[block_i + 1] = "heading" =>
              (placed' = placed /\ images_to_insert' = images_to_insert)
        /\ Len(placed') \in { Len(placed), Len(placed) + 1 }
        /\ Len(placed') > Len(placed) =>
              /\ placed'[Len(placed')].slot = "paragraph"
              /\ placed'[Len(placed')].after = paragraph_idx'
              /\ paragraph_idx' = paragraph_idx + 1

\* C27: with N paragraph blocks and K images remaining after the lead image,
\* images are appended after the last block only if K > N, and then exactly
\* K - N of them; if N >= K every remaining image is inserted directly after
\* a paragraph block, at most one image per paragraph, and a heading block
\* never triggers an image insertion.
C27_LeftoverOnlyIfMoreImagesThanParagraphs ==
    [] LeftoverOnlyBeyondParagraphs /\ [][OnlyParagraphsInsert]_vars

\* C27 witness: three paragraphs and a heading, the lead image and three
\* more, each after a paragraph of its own
C27_Witness ==
    /\ rpc = "done"
    /\ NParagraphs = 3
    /\ "heading" \in { content_blocks[k] : k \in 1..Len(content_blocks) }
    /\ KAfterLead = 3
    /\ Len(AfterParagraph) = 3
    /\ AtEnd = << >>

\* the other case of C27: more images than paragraphs
MoreImagesThanParagraphs ==
    /\ rpc = "done"
    /\ NParagraphs = 1
    /\ KAfterLead = 3
    /\ Len(AfterParagraph) = 1
    /\ Len(AtEnd) = 2

(***************************************************************************)
(* ArticlePDF._add_font_with_variations, one call of add_font at a time.   *)
(***************************************************************************)

\* the style argument that _setup_fonts gives with each entry of a family
StyleCode == [regular |-> "", bold |-> "B", italic |-> "I", bold_italic |-> "BI"]

\* _setup_fonts calls with a file of the registry, its style and its weight
LoadInit ==
    /\ lpc = "first"
    /\ \E key \in DOMAIN FONT_WEIGHTS :
          /\ add_path \in StylePaths(key)
          /\ add_style = StyleCode[key]
          /\ add_weight = FONT_WEIGHTS[key]
    /\ add_calls = << >>
    /\ add_exc = "none"
    /\ FontIdle
    /\ ParseIdle
    /\ PdfIdle
    /\ RenderIdle
    /\ InsertIdle
    /\ ApiIdle
    /\ CliIdle

LoadFrame ==
    UNCHANGED << add_path, add_style, add_weight, fontVars, parseVars, pdfVars,
                 renderVars, insertVars, apiVars, cliVars >>

\* lines 398-409: the first call of add_font
FirstAddFont ==
    /\ lpc = "first"
    /\ add_calls' = << first_add_font(add_path, add_style, add_weight) >>
    /\ \E outcome \in AddFontOutcomes :
          IF outcome = "ok"
          THEN lpc' = "loaded" /\ UNCHANGED add_exc
          ELSE IF Caught(outcome)
          THEN lpc' = "fallback" /\ UNCHANGED add_exc
          ELSE lpc' = "raised" /\ add_exc' = outcome
    /\ LoadFrame

\* lines 410-417: the call of add_font in the except clause
FallbackAddFont ==
    /\ lpc = "fallback"
    /\ add_calls' = Append(add_calls, AddFont(add_style, add_path, << >>))
    /\ \E outcome \in AddFontOutcomes :
          IF outcome = "ok"
          THEN lpc' = "loaded" /\ UNCHANGED add_exc
          ELSE lpc' = "raised" /\ add_exc' = "RuntimeError"
    /\ LoadFrame

LoadNext == FirstAddFont \/ FallbackAddFont

LoadSpec == LoadInit /\ [][LoadNext]_vars

\* the weight the claim gives each style
WeightOfStyle(style) == IF style \in {"B", "BI"} THEN 700 ELSE 400

\* C18: a file is loaded as a variable font, with the weight of its style (400
\* regular and italic, 700 bold and bold-italic), exactly when its path
\* contains "[wght]", and as a static font otherwise; on any load error of the
\* first attempt the file is loaded once more as a static font, and only when
\* that second attempt fails too is a fatal error raised.
C18_FallbackOnAnyError ==
    /\ add_calls # << >> =>
          /\ add_calls[1].path = add_path
          /\ add_calls[1].style = add_style
          /\ add_calls[1].variations =
                (IF add_path \in WghtPaths THEN << WeightOfStyle(add_style) >>
                 ELSE << >>)
    /\ Len(add_calls) >= 2 =>
          /\ Len(add_calls) = 2
          /\ add_calls[2] = AddFont(add_style, add_path, << >>)
    /\ lpc = "raised" => Len(add_calls) = 2

\* What the code does: the second attempt is made after a TypeError or an
\* AttributeError only; any other exception of the first attempt leaves the
\* function at once, as it is.
FallbackOnTypeOrAttributeError ==
    /\ add_calls # << >> =>
          add_calls[1] = AddFont(add_style, add_path,
                                 IF add_path \in WghtPaths
                                 THEN << WeightOfStyle(add_style) >> ELSE << >>)
    /\ Len(add_calls) >= 2 =>
          /\ Len(add_calls) = 2
          /\ add_calls[2] = AddFont(add_style, add_path, << >>)
    /\ (lpc = "raised" /\ Len(add_calls) = 2) => add_exc = "RuntimeError"
    /\ (lpc = "raised" /\ Len(add_calls) = 1) =>
          add_exc \in AddFontErrors \ { "TypeError", "AttributeError" }

VariableBoldLoaded ==
    /\ lpc = "loaded"
    /\ add_calls = << AddFont("B", add_path, << 700 >>), AddFont("B", add_path, << >>) >>

(***************************************************************************)
(* _insert_image.  Lengths are whole numbers; a quotient is kept as the    *)
(* pair << numerator, denominator >>.                                      *)
(***************************************************************************)

\* mutant: the image always takes the full width
scale_image_fit(img, width_limit) ==
    [img_width |-> width_limit,
     img_height |-> << img.height * width_limit, img.width >>]

\* lines 584-586: img_width, and img_height = img.height * (img_width / img.width)
scale_image(img, width_limit) ==
    [img_width |-> Min(img.width, width_limit),
     img_height |-> << img.height * Min(img.width, width_limit), img.width >>]

\* a + b and a > n for a fraction a
FracAdd(a, b) == << a[1] * b[2] + b[1] * a[2], a[2] * b[2] >>
FracExceeds(a, n) == a[1] > n * a[2]

ImageWidths == { 0, 100, 190, 500, 2000 }
ImageHeights == { 50, 300, 1000 }
MaxWidths == { 190, 500 }
CursorYs == { 10, 150, 280 }

InsertInit ==
    /\ ipc = "call"
    /\ ins_img \in [width : ImageWidths, height : ImageHeights, kind : ImageKinds]
    /\ max_width \in MaxWidths
    /\ \E y \in CursorYs : pdf_y = << y, 1 >>
    /\ drawn = << >>
    /\ fonts = {}
    /\ pdf = [NewPdf EXCEPT !.pages = 1, !.b_margin = 15]
    /\ wrote = << >>
    /\ FontIdle
    /\ ParseIdle
    /\ RenderIdle
    /\ LoadIdle
    /\ ApiIdle
    /\ CliIdle

\* line 588: pdf.get_y() + img_height > pdf.h - pdf.b_margin
overflows(y, img_height) == FracExceeds(FracAdd(y, img_height), pdf.h - pdf.b_margin)

\* mutant: the image is placed at the left margin
centred_x2_left(width_limit, img_width) == 2 * pdf.l_margin

\* line 591: x = pdf.l_margin + (max_width - img_width) / 2, kept as 2 * x
centred_x2(width_limit, img_width) == 2 * pdf.l_margin + (width_limit - img_width)

\* the cursor at the top of a new page: the top margin, there is no header
PageTop == << 10, 1 >>

\* line 593: pdf.ln(8)
TrailingSpacing == << 8, 1 >>

\* lines 583-595: the whole function.  A width of 0 raises ZeroDivisionError
\* at line 585 and a file that cannot be loaded raises in pdf.image, after the
\* page break of line 589; the except clause swallows both.  pdf.image, given
\* no y, loads the file, then breaks the page itself when the image does not
\* fit under the cursor (an image taller than a page, after line 589), places
\* the image at the cursor and moves the cursor down by its height.
InsertImage ==
    /\ ipc = "call"
    /\ ipc' = "returned"
    /\ IF ins_img.width = 0
       THEN UNCHANGED << pdf, pdf_y, drawn >>
       ELSE LET scaled == scale_image(ins_img, max_width)
                breaks == overflows(pdf_y, scaled.img_height)
                top == IF breaks THEN PageTop ELSE pdf_y
                page == IF breaks THEN pdf.pages + 1 ELSE pdf.pages
                again == overflows(top, scaled.img_height)
            IN  IF ins_img.kind = "ok"
                THEN /\ pdf' = [pdf EXCEPT !.pages = IF again THEN page + 1 ELSE page]
                     /\ drawn' = Append(drawn,
                           [twice_x |-> centred_x2(max_width, scaled.img_width),
                            w |-> scaled.img_width, h |-> scaled.img_height,
                            page |-> IF again THEN page + 1 ELSE page,
                            y |-> IF again THEN PageTop ELSE top])
                     /\ pdf_y' = FracAdd(FracAdd(IF again THEN PageTop ELSE top,
                                                 scaled.img_height), TrailingSpacing)
                ELSE /\ pdf' = [pdf EXCEPT !.pages = page]
                     /\ drawn' = drawn
                     /\ pdf_y' = top
    /\ UNCHANGED << ins_img, max_width, fonts, wrote >>
    /\ UNCHANGED << fontVars, parseVars, renderVars, loadVars, apiVars, cliVars >>

InsertNext == InsertImage

InsertSpec == InsertInit /\ [][InsertNext]_vars

\* C15: an image is never scaled up: the placed width is the smaller of the
\* image width and max_width, the placed height is the image height times the
\* placed width over the image width, so the aspect ratio is kept.  An image
\* of 2000 by 1000 under max_width 500 is placed 500 by 250; an image not
\* wider than max_width keeps its own size.
C15_ScaledDownOnly ==
    (ipc = "returned" /\ drawn # << >>) =>
        LET d == drawn[1]
        IN  /\ d.w = (IF ins_img.width <= max_width THEN ins_img.width ELSE max_width)
            /\ d.w <= ins_img.width
            /\ d.h[1] * ins_img.width = ins_img.height * d.w * d.h[2]
            /\ (ins_img.width = 2000 /\ ins_img.height = 1000 /\ max_width = 500) =>
                  (d.w = 500 /\ d.h[1] = 250 * d.h[2])
            /\ ins_img.width <= max_width =>
                  (d.w = ins_img.width /\ d.h[1] = ins_img.height * d.h[2])

C15_Witness ==
    /\ ipc = "returned"
    /\ ins_img.width = 2000
    /\ ins_img.height = 1000
    /\ max_width = 500
    /\ Len(drawn) = 1
    /\ drawn[1].w = 500

FracEq(a, b) == a[1] * b[2] = b[1] * a[2]

\* C21: _insert_image forces a page break before placing an image exactly
\* when the cursor's y plus the scaled height exceeds the page height minus the
\* bottom margin; otherwise the image is placed on the current page at the
\* cursor; in both cases x = left margin + (max_width - placed width) / 2 and
\* the cursor ends below the image by the trailing spacing of 8.
C21_PageBreakAndCentring ==
    [][(ipc = "call" /\ ipc' = "returned" /\ drawn' # drawn) =>
          LET d == drawn'[Len(drawn')]
              overflow == FracExceeds(FracAdd(pdf_y, d.h), pdf.h - pdf.b_margin)
          IN  /\ overflow <=> pdf'.pages > pdf.pages
              /\ overflow => (d.page > pdf.pages /\ d.page = pdf'.pages
                                 /\ FracEq(d.y, << 10, 1 >>))
              /\ ~overflow => (d.page = pdf.pages /\ FracEq(d.y, pdf_y))
              /\ d.twice_x = 2 * pdf.l_margin + (max_width - d.w)
              /\ FracEq(pdf_y', FracAdd(FracAdd(d.y, d.h), << 8, 1 >>))]_vars

C21_Witness ==
    /\ ipc = "returned"
    /\ Len(drawn) = 1
    /\ pdf.pages = 2
    /\ drawn[1].page = 2
    /\ drawn[1].w < max_width
    /\ drawn[1].twice_x > 20

\* An image on the current page: the other case of C21.
PlacedOnCurrentPage ==
    /\ ipc = "returned"
    /\ Len(drawn) = 1
    /\ pdf.pages = 1
    /\ drawn[1].page = 1

\* C22: a failed image insertion leaves the layout undisturbed: the page
\* count and the cursor after the call equal those before it.
C22_FailedInsertionKeepsLayout ==
    [][(ipc = "call" /\ ipc' = "returned" /\ drawn' = drawn) =>
          (pdf'.pages = pdf.pages /\ pdf_y' = pdf_y)]_vars

\* What the code does: only a failure before line 588 (a width of 0) leaves
\* the layout as it was; a file that fails to load in pdf.image has had its
\* page break already.
FailedInsertionMayBreakPage ==
    [][(ipc = "call" /\ ipc' = "returned" /\ drawn' = drawn) =>
          /\ ins_img.kind = "corrupt" \/ ins_img.width = 0
          /\ ins_img.width = 0 => (pdf'.pages = pdf.pages /\ pdf_y' = pdf_y)
          /\ pdf'.pages \in { pdf.pages, pdf.pages + 1 }
          /\ pdf'.pages = pdf.pages => pdf_y' = pdf_y
          /\ pdf'.pages > pdf.pages => FracEq(pdf_y', << 10, 1 >>)]_vars

\* A corrupt image that took a page with it.
CorruptImageBrokeThePage ==
    /\ ipc = "returned"
    /\ ins_img.kind = "corrupt"
    /\ drawn = << >>
    /\ pdf.pages = 2

(***************************************************************************)
(* api.download_images.  The two downloaders of image_handler are modelled *)
(* by their results: the top image comes or does not, and the list         *)
(* downloader returns some of the URLs it is given that are not skipped,   *)
(* in their order and no more than max_images of them.                     *)
(***************************************************************************)

NoUrl == "<None>"

MaxRequested == 3
MaxArticleImages == 3

ImageUrls == << "a", "b", "c", "d", "e" >>

\* article.images: with and without the URL of the top image in it
ArticleImageLists ==
    { SubSeq(ImageUrls, 1, n) : n \in 0..MaxArticleImages }
        \cup { << "top" >> \o SubSeq(ImageUrls, 1, n) : n \in 0..(MaxArticleImages - 1) }

\* the elements of a sequence at the indices of keep, in order
RECURSIVE Picked(_, _, _)
Picked(urls, keep, k) ==
    IF k > Len(urls) THEN << >>
    ELSE (IF k \in keep THEN << urls[k] >> ELSE << >>) \o Picked(urls, keep, k + 1)

\* image_handler.download_images(urls, max_images, skip_urls): its results
list_downloads(urls, limit, skip) ==
    { Picked(urls, keep, 1) :
        keep \in { K \in SUBSET { k \in 1..Len(urls) : urls[k] \notin skip } :
                      Cardinality(K) <= limit } }

\* progress_callback(downloaded_count, total_count), and the caller of it
Progress(at, downloaded_count, total_count) ==
    [at |-> at, downloaded_count |-> downloaded_count, total_count |-> total_count]

\* the calls of progress_callback made by image_handler.download_images: one
\* for each of its n downloads, with a total of its own
list_progress(n, total) ==
    [k \in 1..n |-> Progress("list", k, total)]

\* the totals the list downloader may report
ListTotals == 0..Max(MaxRequested, MaxArticleImages)

ApiInit ==
    /\ apc = "top"
    /\ max_images \in 0..MaxRequested
    /\ include_top_image \in BOOLEAN
    /\ has_callback \in BOOLEAN
    /\ top_image \in { NoUrl, "top" }
    /\ article_images \in ArticleImageLists
    /\ downloaded = << >>
    /\ skip_urls = {}
    /\ callbacks = << >>
    /\ FontIdle
    /\ ParseIdle
    /\ PdfIdle
    /\ RenderIdle
    /\ LoadIdle
    /\ InsertIdle
    /\ CliIdle

ApiFrame ==
    UNCHANGED << max_images, include_top_image, has_callback, top_image,
                 article_images, fontVars, parseVars, pdfVars, renderVars,
                 loadVars, insertVars, cliVars >>

\* lines 103-111: the top image, when it is asked for and the article has one
DownloadTop ==
    /\ apc = "top"
    /\ apc' = "more"
    /\ IF include_top_image /\ top_image # NoUrl
       THEN \E top_img \in { NoUrl, top_image } :
               IF top_img # NoUrl
               THEN /\ downloaded' = Append(downloaded, top_img)
                    /\ skip_urls' = skip_urls \cup { top_image }
                    /\ callbacks' =
                          IF has_callback
                          THEN Append(callbacks,
                                      Progress("top", 1,
                                               Min(max_images, Len(article_images))))
                          ELSE callbacks
               ELSE UNCHANGED << downloaded, skip_urls, callbacks >>
       ELSE UNCHANGED << downloaded, skip_urls, callbacks >>
    /\ ApiFrame

\* lines 113-125: the images of the list, up to what remains of max_images.
\* The list downloader is handed progress_callback (line 121) and reports
\* each of its downloads with it; the total it reports is not known here.
DownloadMore ==
    /\ apc = "more"
    /\ apc' = "returned"
    /\ LET remaining == max_images - Len(downloaded)
       IN  IF remaining > 0 /\ article_images # << >>
           THEN \E more_images \in list_downloads(article_images, remaining, skip_urls) :
                   /\ downloaded' = downloaded \o more_images
                   /\ \E total \in ListTotals :
                         callbacks' =
                            IF has_callback
                            THEN callbacks \o list_progress(Len(more_images), total)
                            ELSE callbacks
           ELSE UNCHANGED << downloaded, callbacks >>
    /\ UNCHANGED skip_urls
    /\ ApiFrame

ApiNext == DownloadTop \/ DownloadMore

ApiSpec == ApiInit /\ [][ApiNext]_vars

\* C19: download_images returns at most max_images images, for every
\* max_images >= 0, 0 included, and the top image, when it was downloaded, is
\* the first element.
C19_AtMostMaxImages ==
    apc = "returned" =>
        /\ Len(downloaded) <= max_images
        /\ skip_urls # {} => downloaded[1] = top_image

\* What the code does: the top image is downloaded before max_images is
\* looked at, so the result holds max(1, max_images) images at most.
AtMostMaxImagesOrTheTopImage ==
    apc = "returned" =>
        /\ Len(downloaded) <= Max(max_images, Cardinality(skip_urls))
        /\ skip_urls # {} => downloaded[1] = top_image
        /\ Len(downloaded) > max_images => (max_images = 0 /\ downloaded = << top_image >>)

\* the calls of progress_callback made by api.download_images itself (line 111)
TopProgress == SelectSeq(callbacks, LAMBDA c : c.at = "top")

\* C25: the progress callback invoked after the top image is downloaded gets
\* downloaded_count = 1 and total_count >= 1, so the downloaded count never
\* exceeds the total, for every article (one with an empty image list
\* included) and every max_images.
C25_TopProgressWithinTotal ==
    \A k \in 1..Len(TopProgress) :
        /\ TopProgress[k].downloaded_count = 1
        /\ TopProgress[k].total_count >= 1
        /\ TopProgress[k].downloaded_count <= TopProgress[k].total_count

\* What the code does: the total is min(max_images, len(article.images)), the
\* top image not counted; it is 0 for an article without further images and
\* for max_images = 0.
TopProgressTotalIsListBound ==
    /\ Len(TopProgress) <= 1
    /\ \A k \in 1..Len(TopProgress) :
          /\ TopProgress[k].downloaded_count = 1
          /\ TopProgress[k].total_count = Min(max_images, Len(article_images))
          /\ TopProgress[k].total_count >= 1 <=>
                (max_images >= 1 /\ article_images # << >>)
    /\ (apc # "top" /\ has_callback /\ skip_urls # {}) => Len(TopProgress) = 1

\* The top image of an article without further images was reported as 1 of 0.
OneOfZeroReported ==
    /\ article_images = << >>
    /\ max_images > 0
    /\ Len(TopProgress) = 1
    /\ TopProgress[1].total_count = 0

(***************************************************************************)
(* cli.main, one step for each call it makes outside cli.py.  What it      *)
(* echoes is left out.  The downloaders of image_handler are modelled by   *)
(* their results, as for api.download_images; an image is its URL.         *)
(***************************************************************************)

\* `if x` for an Optional[str]: neither None nor the empty string
Given(arg) == arg \notin { NoArg, "" }

CliUrls == { NoArg, "", "u" }
CliOutputs == { NoArg, "o.pdf" }

\* the command lines
CliArgs ==
    [list_fonts : BOOLEAN, url : CliUrls, output : CliOutputs,
     no_images : BOOLEAN, max_images : 0..MaxRequested]

\* what extract_article may return
Articles ==
    [top_image : { NoArg, "top" }, images : ArticleImageLists, extracted : { TRUE }]

\* a call made by main, with the images it is given
Call(fn, imgs) == [fn |-> fn, images |-> imgs]

\* the disks main may run on: without any font, and with FreeSans
CliDisks == { {}, { FreeSansRegular } }

CliInit ==
    /\ cpc = "main"
    /\ argv \in CliArgs
    /\ article = NoArticle
    /\ fetched = [top_image |-> NoArg, images |-> << >>]
    /\ all_images = << >>
    /\ calls = << >>
    /\ cli_exit = "none"
    /\ fs \in CliDisks
    /\ lookup = NoLookup
    /\ ParseIdle
    /\ PdfIdle
    /\ RenderIdle
    /\ LoadIdle
    /\ InsertIdle
    /\ ApiIdle

CliFrame ==
    UNCHANGED << argv, fontVars, parseVars, pdfVars, renderVars,
                 loadVars, insertVars, apiVars >>

\* lines 195-197 and 13-34: --list-fonts lists the fonts and returns, or
\* raises ClickException when there is none
HandleListFonts ==
    /\ cpc = "main"
    /\ argv.list_fonts
    /\ cpc' = "exit"
    /\ calls' = Append(calls, Call("find_available_fonts", << >>))
    /\ cli_exit' = IF find_available_fonts(fs) = << >>
                   THEN "ClickException: No fonts available"
                   ELSE "returned"
    /\ UNCHANGED << article, fetched, all_images >>
    /\ CliFrame

\* lines 200-205 and 37-50: _validate_required_args
ValidateRequiredArgs ==
    /\ cpc = "main"
    /\ ~argv.list_fonts
    /\ IF ~Given(argv.url)
       THEN cpc' = "exit" /\ cli_exit' = "ClickException: URL is required"
       ELSE IF ~Given(argv.output)
       THEN cpc' = "exit" /\ cli_exit' = "ClickException: Output file path is required"
       ELSE cpc' = "extract" /\ UNCHANGED cli_exit
    /\ UNCHANGED << article, fetched, all_images, calls >>
    /\ CliFrame

\* lines 211-220: extract_article(url); any exception becomes a ClickException
ExtractArticle ==
    /\ cpc = "extract"
    /\ calls' = Append(calls, Call("extract_article", << >>))
    /\ \/ /\ cpc' = "exit"
          /\ cli_exit' = "ClickException: Failed to extract article"
          /\ UNCHANGED article
       \/ /\ cpc' = "download"
          /\ article' \in Articles
          /\ UNCHANGED cli_exit
    /\ UNCHANGED << fetched, all_images >>
    /\ CliFrame

\* line 226: ([top_image] if top_image else []) + images
all_images_of(top, imgs) == (IF Given(top) THEN << top >> ELSE << >>) \o imgs

\* lines 223-226 and 91-135: _download_article_images, then all_images
DownloadArticleImages ==
    /\ cpc = "download"
    /\ cpc' = "generate"
    /\ IF argv.no_images
       THEN /\ fetched' = [top_image |-> NoArg, images |-> << >>]
            /\ all_images' = << >>
            /\ UNCHANGED calls
       ELSE \E top \in (IF Given(article.top_image)
                        THEN { NoArg, article.top_image } ELSE { NoArg }) :
            \E imgs \in (IF article.images # << >>
                         THEN list_downloads(article.images, argv.max_images,
                                             IF Given(article.top_image)
                                             THEN { article.top_image } ELSE {})
                         ELSE { << >> }) :
               /\ fetched' = [top_image |-> top, images |-> imgs]
               /\ all_images' = all_images_of(top, imgs)
               /\ calls' = calls
                     \o (IF Given(article.top_image)
                         THEN << Call("download_top_image", << >>) >> ELSE << >>)
                     \o (IF article.images # << >>
                         THEN << Call("download_images", << >>) >> ELSE << >>)
    /\ UNCHANGED << article, cli_exit >>
    /\ CliFrame

\* mutant: no finally, an exception of generate_pdf leaves main at once
GeneratePdf_nofinally ==
    /\ cpc = "generate"
    /\ calls' = Append(calls, Call("generate_pdf", all_images))
    /\ \/ cpc' = "finally" /\ cli_exit' = "returned"
       \/ cpc' = "done" /\ cli_exit' = "raised"
    /\ UNCHANGED << article, fetched, all_images >>
    /\ CliFrame

\* lines 232-236: generate_pdf(article, all_images, output, ...) returns or
\* raises; either way the finally clause is next
GeneratePdf ==
    /\ cpc = "generate"
    /\ calls' = Append(calls, Call("generate_pdf", all_images))
    /\ cpc' = "finally"
    /\ cli_exit' \in { "returned", "raised" }
    /\ UNCHANGED << article, fetched, all_images >>
    /\ CliFrame

\* lines 237-238: finally: cleanup_images(all_images)
CleanupImages ==
    /\ cpc = "finally"
    /\ calls' = Append(calls, Call("cleanup_images", all_images))
    /\ cpc' = "done"
    /\ UNCHANGED << article, fetched, all_images, cli_exit >>
    /\ CliFrame

CliNext ==
    \/ HandleListFonts
    \/ ValidateRequiredArgs
    \/ ExtractArticle
    \/ DownloadArticleImages
    \/ GeneratePdf
    \/ CleanupImages

CliSpec == CliInit /\ [][CliNext]_vars

\* main is one thread of straight-line code: it takes its next step as long
\* as the call it is in returns
CliLiveSpec == CliSpec /\ WF_vars(CliNext)

\* the calls of one function, in order
CallsOf(fn) == SelectSeq(calls, LAMBDA c : c.fn = fn)

\* the functions that extract, download and render
WorkCalls ==
    { k \in 1..Len(calls) :
        calls[k].fn \in { "extract_article", "download_top_image",
                          "download_images", "generate_pdf", "cleanup_images" } }

\* the state part of C23
CleanupOnceWithAllImages ==
    /\ Len(CallsOf("cleanup_images")) <= 1
    /\ Len(CallsOf("generate_pdf")) <= 1
    /\ cpc \in { "generate", "finally" } => CallsOf("cleanup_images") = << >>
    /\ cpc = "done" =>
          /\ cli_exit \in { "returned", "raised" }
          /\ Len(calls) >= 2
          /\ calls[Len(calls) - 1] = Call("generate_pdf", all_images)
          /\ calls[Len(calls)] = Call("cleanup_images", all_images)
          /\ all_images =
                (IF fetched.top_image # NoArg THEN << fetched.top_image >> ELSE << >>)
                   \o fetched.images
    /\ (argv.list_fonts \/ argv.url \in { NoArg, "" } \/ argv.output \in { NoArg, "" }) =>
          (cpc \in { "main", "exit" } /\ WorkCalls = {})

\* C23: once the image download step has returned, cleanup_images is called
\* exactly once with all downloaded images (the top image and the others),
\* when generate_pdf returns and when it raises; the --list-fonts path and the
\* missing-argument errors end the command before any article extraction,
\* image download or PDF generation.
C23_CleanupExactlyOnce ==
    /\ [] CleanupOnceWithAllImages
    /\ (cpc = "generate") ~>
          (cpc = "done" /\ CallsOf("cleanup_images") = << Call("cleanup_images", all_images) >>)

\* C23 witness: generate_pdf raised and the top image and two more were
\* cleaned up
C23_Witness ==
    /\ cpc = "done"
    /\ cli_exit = "raised"
    /\ fetched.top_image = "top"
    /\ Len(fetched.images) = 2
    /\ CallsOf("cleanup_images") = << Call("cleanup_images", << "top" >> \o fetched.images) >>

\* the early ends of C23
ListFontsEndedEarly == cpc = "exit" /\ argv.list_fonts /\ argv.url = "u" /\ cli_exit = "returned"
MissingOutputEndedEarly ==
    cpc = "exit" /\ ~argv.list_fonts /\ argv.url = "u" /\ argv.output = NoArg

\* C24: the number of images passed to generate_pdf, the top image included,
\* never exceeds --max-images; with --no-images the list is empty.
C24_AtMostMaxImagesInPdf ==
    \A k \in 1..Len(calls) :
        calls[k].fn = "generate_pdf" =>
            /\ Len(calls[k].images) <= argv.max_images
            /\ argv.no_images => calls[k].images = << >>

\* What the code does: --max-images bounds the list download alone, the top
\* image comes on top of it.
AtMostMaxImagesAndTheTopImage ==
    \A k \in 1..Len(calls) :
        calls[k].fn = "generate_pdf" =>
            /\ calls[k].images = all_images
            /\ Len(fetched.images) <= argv.max_images
            /\ Len(all_images) <= argv.max_images + 1
            /\ Len(all_images) > argv.max_images =>
                  (fetched.top_image # NoArg /\ all_images[1] = fetched.top_image)
            /\ argv.no_images => all_images = << >>

\* generate_pdf was given the top image and --max-images more
OneMoreThanMaxImages ==
    /\ cpc = "done"
    /\ argv.max_images = 1
    /\ all_images = << "top", "a" >>

====
